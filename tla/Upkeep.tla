------------------------------- MODULE Upkeep -------------------------------
(***************************************************************************)
(* What the supervisor promises its user, without handle objects, tasks    *)
(* or locks: a preset has at most one llama-server of this backend; a      *)
(* server is launched because the user asked for it or because one went    *)
(* down, and only while none runs; each fall is answered by at most one    *)
(* launch; and once a preset is stopped, no server of it runs, none is     *)
(* due, and none is launched before the user turns to the preset again     *)
(* (supervisor.py, module docstring and the comment on _stop_requested in  *)
(* ProcessHandle.__init__).  Supervisor implements this specification.     *)
(***************************************************************************)
CONSTANTS Presets,    \* what the user starts and stops
          Pids        \* identities of servers

VARIABLES servers,    \* the running servers, as <<preset, pid>> pairs
          due,        \* the launches that are due, as <<preset, reason>> pairs
          fallen,     \* the servers that went down and await an answer
          stopped     \* the presets that the user has stopped

vars == <<servers, due, fallen, stopped>>

\* The user asked for the launch, or it answers a fall.
Reasons == {"asked", "fall"}

ServersOf(p) == {p} \X Pids
Runs(p) == ServersOf(p) \intersect servers # {}
IsDue(p) == \E why \in Reasons : <<p, why>> \in due

-----------------------------------------------------------------------------

Init == servers = {} /\ due = {} /\ fallen = {} /\ stopped = {}

\* The user asks for p; one launch at a time is due for that reason.  The
\* request may be refused.
Asked(p) ==
    \/ due' = due
    \/ /\ \A r \in Presets : <<r, "asked">> \notin due
       /\ due' = due \union {<<p, "asked">>}

Ask(p) ==
    /\ Asked(p)
    /\ stopped' = stopped \ {p}
    /\ fallen' = fallen
    /\ servers' = servers

\* The stop of f is over.
Stop(f) ==
    /\ ~Runs(f) /\ ~IsDue(f)
    /\ stopped' = stopped \union {f}
    /\ fallen' \subseteq fallen
    /\ UNCHANGED <<servers, due>>

\* The stop of f is over, and p, which may be f, is asked for.
StopThenAsk(f, p) ==
    /\ ~Runs(f) /\ ~IsDue(f)
    /\ Asked(p)
    /\ stopped' = (stopped \union {f}) \ {p}
    /\ fallen' \subseteq fallen
    /\ servers' = servers

Launch(p, q, why) ==
    /\ <<p, why>> \in due
    /\ p \notin stopped /\ ~Runs(p)
    /\ \A r \in Presets : <<r, q>> \notin servers \union fallen
    /\ servers' = servers \union {<<p, q>>}
    /\ due' = due \ {<<p, why>>}
    /\ UNCHANGED <<fallen, stopped>>

\* A server goes down, by itself or because it was told to; in the second
\* case an answer to an earlier fall may be called off.
Fall(p, q) ==
    /\ <<p, q>> \in servers
    /\ servers' = servers \ {<<p, q>>}
    /\ fallen' \in {fallen, fallen \union {<<p, q>>}}
    /\ due' \subseteq due
    /\ stopped' = stopped

\* A fall is answered: p will be launched again.
Answer(p, q) ==
    /\ <<p, q>> \in fallen
    /\ p \notin stopped
    /\ fallen' = fallen \ {<<p, q>>}
    /\ due' = due \union {<<p, "fall">>}
    /\ UNCHANGED <<servers, stopped>>

\* A launch is called off or fails; a fall stays without an answer.
Forget ==
    /\ due' \subseteq due
    /\ fallen' \subseteq fallen
    /\ UNCHANGED <<servers, stopped>>

\* The user hands a running server over, one of ours or another's, to a preset
\* without one.
Adopt(p, q) ==
    /\ ~Runs(p)
    /\ \A r \in Presets : <<r, q>> \notin servers \union fallen
    /\ servers' \in {servers, servers \union {<<p, q>>}}
    /\ fallen' \subseteq fallen
    /\ stopped' = stopped \ {p}
    /\ due' = due

\* The user takes the preset's server back.
Release(p) ==
    /\ servers' \in {servers, servers \ ServersOf(p)}
    /\ fallen' \subseteq fallen
    /\ stopped' = stopped \ {p}
    /\ due' = due

\* The backend is replaced, and finds at most one server of each preset.
Restart ==
    /\ servers' \subseteq Presets \X Pids
    /\ \A one, other \in servers' : one[1] = other[1] \/ one[2] = other[2] => one = other
    /\ due' = {} /\ fallen' = {}
    /\ stopped' \subseteq stopped

Next ==
    \/ \E p \in Presets : Ask(p) \/ Stop(p) \/ Release(p)
    \/ \E f, p \in Presets : StopThenAsk(f, p)
    \/ \E p \in Presets, q \in Pids :
          \/ Fall(p, q) \/ Answer(p, q) \/ Adopt(p, q)
          \/ \E why \in Reasons : Launch(p, q, why)
    \/ Forget \/ Restart

Spec == Init /\ [][Next]_vars

=============================================================================
