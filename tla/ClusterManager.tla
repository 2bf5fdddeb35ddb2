--------------------------- MODULE ClusterManager ---------------------------
(***************************************************************************)
(* The cluster managers of several nodes (internal/pipeline/cluster.go)    *)
(* over the etcd coordinator (internal/coordinator/etcd.go).               *)
(*                                                                         *)
(* A key has a queue of candidates, each holding a lease; the first one    *)
(* leads.  Campaign joins the queue and returns when everyone who was      *)
(* ahead is gone.  A coordinator makes one session and never a new one, so *)
(* it cannot campaign once its lease is lost.  IsLeader compares node IDs, *)
(* not leases.  etcd (leases, elections) is external.                      *)
(***************************************************************************)
EXTENDS Integers, FiniteSets, Sequences

CONSTANTS
  ClusterNodes,     \* node IDs
  ClusterTasks,     \* tasks that are running or created
  MaxTasksPerNode,  \* the constant of that name (10)
  QueriesFail,      \* whether ListNodes, ListTasks and IsLeader may fail
  MaxSessions,      \* bound: sessions made, one per process
  MaxExpired        \* bound: sessions of live processes that expire

ASSUME ClusterBounds ==
  {MaxTasksPerNode, MaxSessions, MaxExpired} \subseteq Nat /\ QueriesFail \in BOOLEAN

ClusterKey == "_cluster_leader"

Keys == {ClusterKey} \cup ClusterTasks

VARIABLES
  at,          \* where the leader loop of each node is
  lease,       \* the session of each node's coordinator
  leases,      \* the leases that are alive
  made,        \* sessions made
  election,    \* the candidates of each key in the order they came
  ahead,       \* the leases each node's Campaign waits for
  registered,  \* nodes with a registration key
  wanted,      \* tasks the node has yet to acquire in this rebalance
  target,      \* the task the node campaigns for
  localTasks,  \* localTasks of each node
  expired,     \* sessions of live processes that expired
  shaken       \* ghost: the node lost a lease since it last looked

clusterVars == <<at, lease, leases, made, election, ahead, registered, wanted,
                 target, localTasks, expired, shaken>>

LoopStates == {"down", "check", "campaign", "leading", "rebalance", "acquire", "wait", "stopped"}

Up(n) == at[n] \notin {"down", "stopped"}

\* IsLeader: the first candidate's value is this node's ID.
IsLeader(n, k) == election[k] # <<>> /\ Head(election[k]).node = n

\* Where a session is in the queue of a key, 0 if it is not.
Place(l, k) ==
  LET its == {i \in DOMAIN election[k] : election[k][i].lease = l}
  IN IF its = {} THEN 0 ELSE CHOOSE i \in its : TRUE

\* Campaign joins the queue, once, and waits for those before it.
Join(n, k) ==
  LET p == Place(lease[n], k)
      before == IF p = 0 THEN Len(election[k]) ELSE p - 1
  IN /\ lease[n] \in leases
     /\ election' = IF p # 0 THEN election
                    ELSE [election EXCEPT ![k] = Append(@, [node |-> n, lease |-> lease[n]])]
     /\ ahead' = [ahead EXCEPT ![n] = {election[k][i].lease : i \in 1..before}]

\* The campaign still waits for someone who was before it.
Waiting(n, k) == \E i \in DOMAIN election[k] : election[k][i].lease \in ahead[n]

\* The queue of a key without a session.
Drop(l, k) ==
  LET q == election[k]
      p == Place(l, k)
  IN IF p = 0 THEN q ELSE SubSeq(q, 1, p - 1) \o SubSeq(q, p + 1, Len(q))

-----------------------------------------------------------------------------

\* A process starts: a session (Initialize), the registration and the loops.
StartManager(n) ==
  /\ at[n] = "down"
  /\ made < MaxSessions
  /\ made' = made + 1
  /\ lease' = [lease EXCEPT ![n] = made + 1]
  /\ leases' = leases \cup {made + 1}
  /\ registered' = registered \cup {n}
  /\ at' = [at EXCEPT ![n] = "check"]
  /\ shaken' = [shaken EXCEPT ![n] = FALSE]
  /\ UNCHANGED <<election, ahead, wanted, target, localTasks, expired>>

\* leaderLoop: already leading, by its ID, or a campaign.  Without a lease the
\* campaign fails and the loop starts over.
CheckLeader(n) ==
  /\ at[n] = "check"
  /\ \/ /\ IsLeader(n, ClusterKey)
        /\ at' = [at EXCEPT ![n] = "leading"]
        /\ UNCHANGED <<election, ahead>>
     \/ /\ ~IsLeader(n, ClusterKey)
        /\ Join(n, ClusterKey)
        /\ at' = [at EXCEPT ![n] = "campaign"]
  /\ UNCHANGED <<lease, leases, made, registered, wanted, target, localTasks, expired, shaken>>

\* Campaign returns: those ahead are gone, whether or not the own lease is left.
Elected(n) ==
  /\ at[n] = "campaign"
  /\ ~Waiting(n, ClusterKey)
  /\ at' = [at EXCEPT ![n] = "leading"]
  /\ UNCHANGED <<lease, leases, made, election, ahead, registered, wanted, target, localTasks,
                 expired, shaken>>

\* leaderTasks: a tick, and a look whether the node still leads; a look that
\* fails counts as no.
VerifyLeader(n) ==
  /\ at[n] = "leading"
  /\ shaken' = [shaken EXCEPT ![n] = FALSE]
  /\ \/ /\ IsLeader(n, ClusterKey)
        /\ at' = [at EXCEPT ![n] = "rebalance"]
     \/ /\ ~IsLeader(n, ClusterKey) \/ QueriesFail
        /\ at' = [at EXCEPT ![n] = "check"]
  /\ UNCHANGED <<lease, leases, made, election, ahead, registered, wanted, target, localTasks, expired>>

\* rebalanceCluster: the tasks this node leads already are taken for unassigned,
\* each goes to a registered node with fewest of them, and the node takes its
\* own.  Tasks are left out when a query fails, and when pickLeastLoaded finds
\* every node above MaxTasksPerNode.
RebalanceCluster(n) ==
  /\ at[n] = "rebalance"
  /\ \E unassigned \in SUBSET {t \in ClusterTasks : IsLeader(n, t)} :
       \E f \in [unassigned -> registered] :
         LET share(m) == Cardinality({t \in unassigned : f[t] = m})
         IN /\ \A m1, m2 \in registered : share(m1) <= share(m2) + 1
            /\ \A m \in registered : share(m) <= MaxTasksPerNode + 1
            /\ \/ QueriesFail
               \/ \A t \in ClusterTasks : IsLeader(n, t) => t \in unassigned
               \/ \A m \in registered : share(m) = MaxTasksPerNode + 1
            /\ wanted' = [wanted EXCEPT ![n] = {t \in unassigned : f[t] = n}]
  /\ at' = [at EXCEPT ![n] = IF wanted'[n] = {} THEN "leading" ELSE "acquire"]
  /\ ahead' = [ahead EXCEPT ![n] = {}]
  /\ UNCHANGED <<lease, leases, made, election, registered, target, localTasks, expired, shaken>>

\* The next wanted task is done with.
DoneWith(n, t) ==
  /\ wanted' = [wanted EXCEPT ![n] = @ \ {t}]
  /\ at' = [at EXCEPT ![n] = IF wanted[n] = {t} THEN "leading" ELSE "acquire"]

\* acquireTask campaigns for the task; without a lease that is an error.
AcquireTask(n, t) ==
  /\ at[n] = "acquire"
  /\ t \in wanted[n]
  /\ \/ /\ Join(n, t)
        /\ at' = [at EXCEPT ![n] = "wait"]
        /\ target' = [target EXCEPT ![n] = t]
        /\ UNCHANGED wanted
     \/ /\ lease[n] \notin leases
        /\ DoneWith(n, t)
        /\ UNCHANGED <<election, ahead, target>>
  /\ UNCHANGED <<lease, leases, made, registered, localTasks, expired, shaken>>

\* Plausible bug: acquireTask does not wait for the campaign.
TaskAcquiredAtOnce(n) ==
  /\ at[n] = "wait"
  /\ localTasks' = [localTasks EXCEPT ![n] = @ \cup {target[n]}]
  /\ DoneWith(n, target[n])
  /\ UNCHANGED <<lease, leases, made, election, ahead, registered, target, expired, shaken>>

\* The campaign returns and the task is started (onTaskAssigned).
TaskAcquired(n) ==
  /\ at[n] = "wait"
  /\ ~Waiting(n, target[n])
  /\ localTasks' = [localTasks EXCEPT ![n] = @ \cup {target[n]}]
  /\ DoneWith(n, target[n])
  /\ UNCHANGED <<lease, leases, made, election, ahead, registered, target, expired, shaken>>

\* The embedding program campaigns for a task through the node's coordinator.
\* Under src only acquireTask does, and only for a task its node leads, so
\* without this step no task is ever led.
OtherCampaigns(n, t) ==
  /\ Up(n)
  /\ Place(lease[n], t) = 0
  /\ lease[n] \in leases
  /\ election' = [election EXCEPT ![t] = Append(@, [node |-> n, lease |-> lease[n]])]
  /\ UNCHANGED <<at, lease, leases, made, ahead, registered, wanted, target, localTasks,
                 expired, shaken>>

\* Stop ends the loops (a campaign that is cancelled withdraws), releases the
\* tasks the node holds and unregisters it.  The cluster leadership is not
\* released and the tasks are not stopped.
StopManager(n) ==
  LET given == localTasks[n] \cup (IF at[n] = "campaign" THEN {ClusterKey} ELSE {})
                            \cup (IF at[n] = "wait" THEN {target[n]} ELSE {})
  IN /\ Up(n)
     /\ at' = [at EXCEPT ![n] = "stopped"]
     /\ election' = [k \in Keys |->
          IF k \in given THEN Drop(lease[n], k) ELSE election[k]]
     /\ registered' = registered \ {n}
     /\ wanted' = [wanted EXCEPT ![n] = {}]
     /\ UNCHANGED <<lease, leases, made, ahead, target, localTasks, expired, shaken>>

\* The process ends, with or without Stop: its tasks end with it.
ProcessEnds(n) ==
  /\ at[n] # "down"
  /\ at' = [at EXCEPT ![n] = "down"]
  /\ localTasks' = [localTasks EXCEPT ![n] = {}]
  /\ wanted' = [wanted EXCEPT ![n] = {}]
  /\ UNCHANGED <<lease, leases, made, election, ahead, registered, target, expired, shaken>>

\* A lease expires with its keys: its process is gone, or does not reach etcd.
LeaseExpires(l) ==
  /\ l \in leases
  /\ leases' = leases \ {l}
  /\ election' = [k \in Keys |-> Drop(l, k)]
  /\ shaken' = [n \in ClusterNodes |->
       shaken[n] \/ (IsLeader(n, ClusterKey) /\ Head(election[ClusterKey]).lease = l)]
  /\ IF \E n \in ClusterNodes : at[n] # "down" /\ lease[n] = l
     THEN expired < MaxExpired /\ expired' = expired + 1
     ELSE expired' = expired
  /\ UNCHANGED <<at, lease, made, ahead, registered, wanted, target, localTasks>>

\* The registration of a node without heartbeats expires.
NodeExpires(n) ==
  /\ n \in registered
  /\ ~Up(n)
  /\ registered' = registered \ {n}
  /\ UNCHANGED <<at, lease, leases, made, election, ahead, wanted, target, localTasks,
                 expired, shaken>>

-----------------------------------------------------------------------------

ClusterInit ==
  /\ at = [n \in ClusterNodes |-> "down"]
  /\ lease = [n \in ClusterNodes |-> 0]
  /\ leases = {}
  /\ made = 0
  /\ election = [k \in Keys |-> <<>>]
  /\ ahead = [n \in ClusterNodes |-> {}]
  /\ registered = {}
  /\ wanted = [n \in ClusterNodes |-> {}]
  /\ target \in [ClusterNodes -> {CHOOSE t \in ClusterTasks : TRUE}]
  /\ localTasks = [n \in ClusterNodes |-> {}]
  /\ expired = 0
  /\ shaken = [n \in ClusterNodes |-> FALSE]

LoopStep(n) ==
  \/ CheckLeader(n)
  \/ Elected(n)
  \/ VerifyLeader(n)
  \/ RebalanceCluster(n)
  \/ \E t \in ClusterTasks : AcquireTask(n, t)
  \/ TaskAcquired(n)

ClusterNext ==
  \/ \E n \in ClusterNodes :
       \/ LoopStep(n)
       \/ StartManager(n)
       \/ \E t \in ClusterTasks : OtherCampaigns(n, t)
       \/ StopManager(n)
       \/ ProcessEnds(n)
       \/ NodeExpires(n)
  \/ \E l \in 1..MaxSessions : LeaseExpires(l)

ClusterSpec == ClusterInit /\ [][ClusterNext]_clusterVars

\* The loops go on, and the lease and the registration of a process that is gone
\* expire.
ClusterFair ==
  /\ ClusterSpec
  /\ \A n \in ClusterNodes : WF_clusterVars(LoopStep(n)) /\ WF_clusterVars(NodeExpires(n))
  /\ \A l \in 1..MaxSessions :
       WF_clusterVars(LeaseExpires(l) /\ \A n \in ClusterNodes : lease[n] = l => at[n] = "down")

-----------------------------------------------------------------------------

\* Type invariant: candidates hold leases that are alive, each at most once per
\* key, so a lost lease leaves no trace in the elections.
ClusterTypeOK ==
  /\ at \in [ClusterNodes -> LoopStates]
  /\ lease \in [ClusterNodes -> 0..made]
  /\ leases \subseteq 1..made /\ made <= MaxSessions
  /\ \A k \in Keys :
       /\ election[k] \in Seq([node : ClusterNodes, lease : leases])
       /\ \A i, j \in DOMAIN election[k] : election[k][i].lease = election[k][j].lease => i = j
  /\ ahead \in [ClusterNodes -> SUBSET (1..made)]
  /\ registered \subseteq ClusterNodes
  /\ wanted \in [ClusterNodes -> SUBSET ClusterTasks]
  /\ target \in [ClusterNodes -> ClusterTasks]
  /\ localTasks \in [ClusterNodes -> SUBSET ClusterTasks]
  /\ expired \in 0..MaxExpired
  /\ shaken \in [ClusterNodes -> BOOLEAN]

\* A node that rebalances the cluster leads it, unless the lease by which it led
\* has expired since it looked.  A node that holds a task is first in the task's
\* election with its own session, so no two nodes run a task, except that a node
\* whose session was lost is not told and goes on, and so does one whose manager
\* was stopped (cluster.go leaderTasks, acquireTask, Stop; etcd.go
\* AcquireLeadership).
ActsAsLeader ==
  \A n \in ClusterNodes :
    /\ at[n] = "rebalance" => IsLeader(n, ClusterKey) \/ shaken[n]
    /\ \A t \in localTasks[n] :
         \/ election[t] # <<>> /\ Head(election[t]).lease = lease[n]
         \/ lease[n] \notin leases
         \/ at[n] = "stopped"

\* "Assign unassigned tasks to nodes with lowest load" (cluster.go:278): while
\* some node with a session stays up, every task comes to be held by a node.
TasksGetAssigned ==
  \A t \in ClusterTasks :
    <>[](\E n \in ClusterNodes : Up(n) /\ lease[n] \in leases)
      => <>(\E n \in ClusterNodes : t \in localTasks[n])
=============================================================================
