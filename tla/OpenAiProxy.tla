---------------------------- MODULE OpenAiProxy ----------------------------
(***************************************************************************)
(* The OpenAI-compatible proxy, src/backend/lld/api/openai_proxy.py: each  *)
(* call that brings no lease gets one of its own from the GPU broker, is   *)
(* kept alive by a heartbeat task, and gives the lease back at its end.    *)
(*                                                                         *)
(* Of the broker only the life of the leases is here: GpuBroker shows what *)
(* it does with them.  The code between two awaits is one step.            *)
(***************************************************************************)
EXTENDS Naturals

CONSTANTS Calls   \* identities of requests to the proxy

VARIABLES
    call,     \* the handlers of the requests
    heart,    \* their heartbeat tasks
    tenancy   \* the lease each uses, as the broker knows it

proxyVars == <<call, heart, tenancy>>

(* acquiring  acquire() is awaited
   sending    a plain request awaits llama-server
   offered    a StreamingResponse was returned; its generator has not begun
   streaming  the generator runs
   closing    the finally awaits the end of the connection, then release()
   abandoned  the client left before the generator began                     *)
CallPlaces == {"none", "acquiring", "sending", "offered", "streaming", "closing",
               "over", "abandoned"}
Call == [at : CallPlaces, stream : BOOLEAN, own : BOOLEAN]

ProxyInit ==
    /\ call \in [Calls -> [at : {"none"}, stream : BOOLEAN, own : BOOLEAN]]
    /\ heart = [c \in Calls |-> "none"]
    /\ tenancy = [c \in Calls |-> IF call[c].own THEN "held" ELSE "none"]

-----------------------------------------------------------------------------

CallGoes(c, place) == call' = [call EXCEPT ![c].at = place]

\* From the lease to the first await, or to the response.
Forwards(c) == CallGoes(c, IF call[c].stream THEN "offered" ELSE "sending")

\* A lease the client brings is looked up once: 404 if it is gone.
ComesWithLease(c) ==
    /\ call[c].at = "none" /\ call[c].own
    /\ IF tenancy[c] = "held" THEN Forwards(c) ELSE CallGoes(c, "over")
    /\ UNCHANGED <<heart, tenancy>>

ComesWithout(c) ==
    /\ call[c].at = "none" /\ ~call[c].own
    /\ CallGoes(c, "acquiring")
    /\ UNCHANGED <<heart, tenancy>>

\* acquire() returns a lease, and a heartbeat is started for it.
Acquired(c) ==
    /\ call[c].at = "acquiring"
    /\ Forwards(c)
    /\ heart' = [heart EXCEPT ![c] = "beating"]
    /\ tenancy' = [tenancy EXCEPT ![c] = "held"]

\* BrokerError: no lease in time, no service, shutdown.
Refused(c) ==
    /\ call[c].at = "acquiring"
    /\ CallGoes(c, "over")
    /\ UNCHANGED <<heart, tenancy>>

\* The response is sent: its generator begins, unless the client has left.
GeneratorBegins(c) ==
    /\ call[c].at = "offered"
    /\ CallGoes(c, "streaming")
    /\ UNCHANGED <<heart, tenancy>>

ClientLeavesEarly(c) ==
    /\ call[c].at = "offered"
    /\ CallGoes(c, "abandoned")
    /\ UNCHANGED <<heart, tenancy>>

\* Mutant: the heartbeat is cancelled after the connection is closed.
HeartGoesOn(c) == heart

\* The finally, up to its first await: first of all the heartbeat is cancelled.
HeartCancelled(c) == [heart EXCEPT ![c] = IF @ = "beating" THEN "over" ELSE @]

\* llama-server answered, with success or an error, or could not be reached;
\* or the client of a stream left.
Upstream(c) ==
    /\ call[c].at \in {"sending", "streaming"}
    /\ CallGoes(c, "closing")
    /\ heart' = HeartCancelled(c)
    /\ UNCHANGED tenancy

\* release(): a lease that is gone is no error.
Releases(c) ==
    /\ call[c].at = "closing"
    /\ CallGoes(c, "over")
    /\ tenancy' = [tenancy EXCEPT ![c] = IF @ = "held" /\ ~call[c].own THEN "gone" ELSE @]
    /\ UNCHANGED heart

\* Where the client left a stream, the awaits of the finally may be cancelled
\* as well, and with them the release.
ReleaseCut(c) ==
    /\ call[c].at = "closing" /\ call[c].stream
    /\ CallGoes(c, "over")
    /\ UNCHANGED <<heart, tenancy>>

-----------------------------------------------------------------------------
(* The broker *)

\* The slot is given up: its service died, or the broker stops.
LeaseLost(c) ==
    /\ tenancy[c] = "held"
    /\ tenancy' = [tenancy EXCEPT ![c] = "gone"]
    /\ UNCHANGED <<call, heart>>

\* A lease outlives many intervals of its heartbeat, but not its absence.
LeaseExpires(c) ==
    /\ heart[c] # "beating"
    /\ LeaseLost(c)

\* _heartbeat_loop(): BrokerError.
HeartStops(c) ==
    /\ heart[c] = "beating" /\ tenancy[c] # "held"
    /\ heart' = [heart EXCEPT ![c] = "over"]
    /\ UNCHANGED <<call, tenancy>>

CallProceeds(c) ==
    \/ Acquired(c) \/ Refused(c) \/ GeneratorBegins(c) \/ ClientLeavesEarly(c)
    \/ Upstream(c) \/ Releases(c) \/ ReleaseCut(c)

ProxyNext ==
    \E c \in Calls :
        \/ ComesWithLease(c) \/ ComesWithout(c) \/ CallProceeds(c)
        \/ LeaseLost(c) \/ HeartStops(c)

ProxySpec == ProxyInit /\ [][ProxyNext]_proxyVars

\* The timeouts of the broker and of the HTTP client end what is awaited; a
\* lease without heartbeats expires, one of the client's may have them.
ProxyFairness ==
    \A c \in Calls :
        /\ WF_proxyVars(CallProceeds(c))
        /\ WF_proxyVars(~call[c].own /\ LeaseExpires(c))
        /\ WF_proxyVars(HeartStops(c))

-----------------------------------------------------------------------------
(* Properties *)

ProxyTypeOK ==
    /\ call \in [Calls -> Call]
    /\ heart \in [Calls -> {"none", "beating", "over"}]
    /\ tenancy \in [Calls -> {"none", "held", "gone"}]

\* No lease of the proxy's own outlives its request for good, even if the
\* release was cut off: its heartbeat has stopped before, so that it expires.
\* Not so where the generator of a stream never began.
LeaseIsGivenBack ==
    \A c \in Calls :
        ~call[c].own /\ tenancy[c] = "held" ~> (tenancy[c] # "held" \/ call[c].at = "abandoned")

=============================================================================
