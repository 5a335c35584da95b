------------------------------ MODULE StateGraph ------------------------------
(***************************************************************************)
(* What a user of StateMachine draws on a whiteboard: a graph whose edges  *)
(* are accepted by events, a current node, and a meta node whose edges     *)
(* apply wherever the current node has no edge for the event.              *)
(*                                                                         *)
(* There are no callbacks here and no partly processed event: an event is  *)
(* accepted, and later one atomic step decides which edge it takes.        *)
(* StateMachine.tla is shown to implement this, whatever its callbacks do. *)
(***************************************************************************)
EXTENDS Naturals, Sequences

CONSTANTS
    States, NoState,   \* the nodes, and the absence of one
    Owned,             \* the nodes Force and SetMeta may name
    Events, NoEvent,
    Edges              \* what an edge may be: [to, on, internal]

VARIABLES
    table,             \* the edges out of each node, in order of precedence
    at,                \* the current node
    meta,              \* the meta node, or NoState
    pending,           \* the event accepted and not yet decided, or NoEvent
    moving             \* the event is decided and its edge is being followed

graphVars == <<table, at, meta, pending, moving>>

Free == pending = NoEvent /\ ~moving

EdgesOf(s) == IF s = NoState THEN <<>> ELSE table[s]

\* k is the first edge in es that event takes to another node.
Leads(es, event, k) ==
    /\ k \in DOMAIN es
    /\ event \in es[k].on /\ ~es[k].internal
    /\ \A j \in 1..(k - 1) : es[j].internal \/ event \notin es[j].on

\* k is the first edge in es that event takes, staying included.
Takes(es, event, k) ==
    /\ k \in DOMAIN es
    /\ event \in es[k].on
    /\ \A j \in 1..(k - 1) : event \notin es[j].on

StaysPut(es, event) == \A k \in DOMAIN es : es[k].internal \/ event \notin es[k].on

GraphInit ==
    /\ table = [s \in States |-> <<>>]
    /\ at = NoState /\ meta = NoState /\ pending = NoEvent /\ moving = FALSE

AddEdge(s, edge) ==
    /\ Free
    /\ table' = [table EXCEPT ![s] = Append(@, edge)]
    /\ UNCHANGED <<at, meta, pending, moving>>

\* Nobody forces the machine out of the edge it is following.
Force(s) ==
    /\ Free
    /\ at' = s
    /\ UNCHANGED <<table, meta, pending, moving>>

SetMeta(s) == meta' = s /\ UNCHANGED <<table, at, pending, moving>>

Accept(event) ==
    /\ Free
    /\ pending' = event
    /\ UNCHANGED <<table, at, meta, moving>>

Arrive ==
    /\ moving
    /\ moving' = FALSE
    /\ UNCHANGED <<table, at, meta, pending>>

MoveTo(s) ==
    /\ pending' = NoEvent
    /\ at' = s
    /\ moving' = TRUE
    /\ UNCHANGED <<table, meta>>

FollowEdge(k) ==
    /\ Leads(EdgesOf(at), pending, k)
    /\ MoveTo(EdgesOf(at)[k].to)

FollowMetaEdge(k) ==
    /\ at # NoState
    /\ StaysPut(EdgesOf(at), pending)
    /\ Takes(EdgesOf(meta), pending, k)
    /\ MoveTo(EdgesOf(meta)[k].to)

Stay ==
    /\ pending' = NoEvent
    /\ UNCHANGED <<table, at, meta, moving>>

\* No edge leads anywhere.
Remain ==
    /\ StaysPut(EdgesOf(at), pending)
    /\ at = NoState \/ \A k \in DOMAIN EdgesOf(meta) : pending \notin EdgesOf(meta)[k].on
    /\ Stay

\* A predicate threw before the event was decided, which needs an edge to try.
Abandon ==
    /\ EdgesOf(at) # <<>> \/ (at # NoState /\ EdgesOf(meta) # <<>>)
    /\ Stay

Decide ==
    /\ pending # NoEvent
    /\ \/ \E k \in DOMAIN EdgesOf(at) : FollowEdge(k)
       \/ \E k \in DOMAIN EdgesOf(meta) : FollowMetaEdge(k)
       \/ Remain
       \/ Abandon

GraphNext ==
    \/ \E s \in States, edge \in Edges : AddEdge(s, edge)
    \/ \E s \in Owned : Force(s) \/ SetMeta(s)
    \/ SetMeta(NoState)
    \/ \E event \in Events : Accept(event)
    \/ Decide
    \/ Arrive

GraphSpec == GraphInit /\ [][GraphNext]_graphVars
=============================================================================
