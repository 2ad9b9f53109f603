---------------------------- MODULE ServerProofs ----------------------------
(***************************************************************************)
(* The servers of presets and the rpc-servers: no preset is restarted too  *)
(* often, for all numbers of presets, models, failures, restarts and       *)
(* ticks; no rpc-server is lost that was started alone, for all settings,  *)
(* starts and processes; and a boot brings the routers up and shows a      *)
(* stale one, whatever the users do to presets, settings and files, and    *)
(* however the backend and the processes end.                              *)
(***************************************************************************)
EXTENDS HealthWatchdog, RpcServers, OpenAiProxy, Lifecycle, FiniteSetTheorems, WellFoundedInduction, TLAPS

-----------------------------------------------------------------------------
(* The watchdog: the inductive invariant *)

\* What the watchdog remembers of a preset are its last restarts, and those it
\* does not are out of the window.
Remembers(hist, all) ==
    /\ Len(hist) <= Len(all)
    /\ \A i \in 1..Len(hist) : hist[i] = all[i + (Len(all) - Len(hist))]
    /\ \A i \in 1..(Len(all) - Len(hist)) : all[i] > RestartWindow

WatchdogInv ==
    /\ restartHist \in [Watched -> Seq(Ages)] /\ restarts \in [Watched -> Seq(Ages)]
    /\ \A p \in Watched : Len(restartHist[p]) <= MaxRestarts /\ Remembers(restartHist[p], restarts[p])

-----------------------------------------------------------------------------
(* What is left of a sequence of ages *)

LEMMA WindowType == RestartWindow \in Nat /\ MaxRestarts \in Nat
BY WatchdogAssumption

\* Every set of numbers that is not empty has a least one.
LEMMA HasLeast ==
    ASSUME NEW T \in SUBSET Nat, T # {}
    PROVE  \E x \in T : \A y \in T : x <= y
<1>. DEFINE R == OpToRel(<, Nat)
<1>1. IsWellFoundedOn(R, Nat) BY NatLessThanWellFounded
<1>2. \A x, y \in Nat : <<y, x>> \in R <=> y < x BY DEF OpToRel
<1>. HIDE DEF R
<1>3. PICK x \in T : \A y \in T : <<y, x>> \notin R BY <1>1, WFMin
<1>4. ASSUME NEW y \in T PROVE x <= y
    <2>1. x \in Nat /\ y \in Nat OBVIOUS
    <2>2. ~(y < x) BY <1>2, <1>3, <2>1
    <2>. QED BY <2>1, <2>2
<1>. QED BY <1>4

\* The ages that are left begin with the first that is not too old.
LEMMA FreshIsASuffix ==
    ASSUME NEW s \in Seq(Ages)
    PROVE  \E n \in 1..(Len(s) + 1) :
              /\ \A i \in 1..(n - 1) : s[i] > RestartWindow
              /\ n <= Len(s) => s[n] <= RestartWindow
              /\ Fresh(s) = SubSeq(s, n, Len(s))
<1>. DEFINE First(n) == /\ \A i \in 1..(n - 1) : s[i] > RestartWindow
                        /\ n <= Len(s) => s[n] <= RestartWindow
            T == {n \in 1..(Len(s) + 1) : n = Len(s) + 1 \/ s[n] <= RestartWindow}
<1>1. Len(s) \in Nat /\ RestartWindow \in Nat /\ \A i \in 1..Len(s) : s[i] \in Nat
    BY WindowType DEF Ages
<1>2. T \in SUBSET Nat /\ T # {}
    <2>1. Len(s) + 1 \in 1..(Len(s) + 1) BY <1>1
    <2>. QED BY <1>1, <2>1
<1>3. PICK n \in T : \A m \in T : n <= m
    <2>. HIDE DEF T
    <2>. QED BY <1>2, HasLeast
<1>4. n \in 1..(Len(s) + 1) /\ (n <= Len(s) => s[n] <= RestartWindow) BY <1>1
<1>5. ASSUME NEW i \in 1..(n - 1) PROVE s[i] > RestartWindow
    <2>1. i \in 1..(Len(s) + 1) /\ i # Len(s) + 1 /\ i \in 1..Len(s) /\ i < n BY <1>1, <1>4
    <2>2. i \notin T BY <1>1, <1>3, <1>4, <2>1
    <2>. QED BY <1>1, <2>1, <2>2
<1>6. First(n) BY <1>4, <1>5
<1>. DEFINE first == CHOOSE m \in 1..(Len(s) + 1) : First(m)
<1>7. first \in 1..(Len(s) + 1) /\ First(first) BY <1>4, <1>6
<1>8. Fresh(s) = SubSeq(s, first, Len(s)) BY DEF Fresh
<1>. HIDE DEF first
<1>. QED BY <1>7, <1>8

\* It is a sequence of ages, no longer than before, and remembers the same.
LEMMA FreshRemembers ==
    ASSUME NEW s \in Seq(Ages)
    PROVE  /\ Fresh(s) \in Seq(Ages) /\ Len(Fresh(s)) <= Len(s)
           /\ Remembers(Fresh(s), s)
<1>1. PICK n \in 1..(Len(s) + 1) :
              /\ \A i \in 1..(n - 1) : s[i] > RestartWindow
              /\ Fresh(s) = SubSeq(s, n, Len(s))
    BY FreshIsASuffix
<1>2. Len(s) \in Nat OBVIOUS
<1>. DEFINE f == SubSeq(s, n, Len(s))
<1>3. f \in Seq(Ages) /\ Len(f) = Len(s) - n + 1 /\ \A i \in 1..Len(f) : f[i] = s[n + i - 1]
    BY <1>2
<1>4. f = Fresh(s) BY <1>1
<1>. HIDE DEF f
<1>5. Len(f) <= Len(s) /\ Len(s) - Len(f) = n - 1 BY <1>2, <1>3
<1>6. \A i \in 1..Len(f) : f[i] = s[i + (Len(s) - Len(f))] BY <1>2, <1>3, <1>5
<1>7. Remembers(f, s) BY <1>1, <1>5, <1>6 DEF Remembers
<1>. QED BY <1>3, <1>4, <1>5, <1>7

\* Of what is remembered, as much is left as of all that was.
LEMMA FreshOfRemembered ==
    ASSUME NEW h \in Seq(Ages), NEW a \in Seq(Ages), Remembers(h, a)
    PROVE  Remembers(Fresh(h), a) /\ Fresh(a) = Fresh(h)
<1>1. PICK n \in 1..(Len(h) + 1) :
              /\ \A i \in 1..(n - 1) : h[i] > RestartWindow
              /\ n <= Len(h) => h[n] <= RestartWindow
              /\ Fresh(h) = SubSeq(h, n, Len(h))
    BY FreshIsASuffix
<1>2. PICK m \in 1..(Len(a) + 1) :
              /\ \A i \in 1..(m - 1) : a[i] > RestartWindow
              /\ m <= Len(a) => a[m] <= RestartWindow
              /\ Fresh(a) = SubSeq(a, m, Len(a))
    BY FreshIsASuffix
<1>. DEFINE k == Len(a) - Len(h)
<1>3. /\ k \in Nat /\ Len(h) \in Nat /\ Len(a) \in Nat /\ n \in Nat /\ m \in Nat /\ RestartWindow \in Nat
      /\ \A i \in 1..Len(h) : h[i] = a[i + k]
      /\ \A i \in 1..k : a[i] > RestartWindow
      /\ \A i \in 1..Len(a) : a[i] \in Nat
    BY WindowType DEF Remembers, Ages
<1>. HIDE DEF k
<1>4. Len(a) = Len(h) + k BY <1>3 DEF k
<1>5. \A i \in 1..(n + k - 1) : a[i] > RestartWindow
    <2>. TAKE i \in 1..(n + k - 1)
    <2>1. CASE i <= k BY <1>3, <2>1
    <2>2. CASE i > k
        <3>1. (i - k) \in 1..(n - 1) /\ (i - k) \in 1..Len(h) BY <1>3, <1>4, <2>2
        <3>2. h[i - k] > RestartWindow /\ h[i - k] = a[(i - k) + k] BY <1>1, <1>3, <3>1
        <3>3. (i - k) + k = i BY <1>3
        <3>. QED BY <3>2, <3>3
    <2>. QED BY <1>3, <2>1, <2>2
<1>6. n + k <= Len(a) => a[n + k] <= RestartWindow
    <2>. SUFFICES ASSUME n + k <= Len(a) PROVE a[n + k] <= RestartWindow OBVIOUS
    <2>1. n \in 1..Len(h) BY <1>3, <1>4
    <2>. QED BY <1>1, <1>3, <2>1
<1>7. m = n + k
    <2>1. CASE m < n + k
        <3>1. m \in 1..(n + k - 1) /\ m \in 1..Len(a) BY <1>1, <1>3, <1>4, <2>1
        <3>2. a[m] > RestartWindow /\ a[m] <= RestartWindow /\ a[m] \in Nat BY <1>2, <1>3, <1>5, <3>1
        <3>. QED BY <1>3, <3>2
    <2>2. CASE m > n + k
        <3>1. n + k \in 1..(m - 1) /\ n + k \in 1..Len(a) BY <1>1, <1>2, <1>3, <1>4, <2>2
        <3>2. a[n + k] > RestartWindow /\ a[n + k] <= RestartWindow /\ a[n + k] \in Nat BY <1>2, <1>3, <1>6, <3>1
        <3>. QED BY <1>3, <3>2
    <2>. QED BY <1>3, <2>1, <2>2
<1>. DEFINE fh == SubSeq(h, n, Len(h))
            fa == SubSeq(a, m, Len(a))
<1>8. fh \in Seq(Ages) /\ Len(fh) = Len(h) - n + 1 /\ \A i \in 1..Len(fh) : fh[i] = h[n + i - 1]
    BY <1>3
<1>9. fa \in Seq(Ages) /\ Len(fa) = Len(a) - m + 1 /\ \A i \in 1..Len(fa) : fa[i] = a[m + i - 1]
    BY <1>3
<1>10. Fresh(h) = fh /\ Fresh(a) = fa BY <1>1, <1>2
<1>. HIDE DEF fh, fa
<1>11. Len(fa) = Len(fh) /\ Len(fh) \in Nat BY <1>1, <1>3, <1>4, <1>7, <1>8, <1>9
<1>12. ASSUME NEW i \in 1..Len(fh) PROVE fa[i] = fh[i]
    <2>1. n + i - 1 \in 1..Len(h) /\ (n + i - 1) + k = m + i - 1 BY <1>1, <1>3, <1>7, <1>8, <1>11
    <2>2. fa[i] = a[m + i - 1] /\ fh[i] = h[n + i - 1] BY <1>8, <1>9, <1>11
    <2>3. h[n + i - 1] = a[(n + i - 1) + k] BY <1>3, <2>1
    <2>. QED BY <2>1, <2>2, <2>3
<1>13. fa = fh
    <2>1. fa \in Seq(Ages) /\ fh \in Seq(Ages) BY <1>8, <1>9
    <2>2. fa \in [1..Len(fa) -> Ages] /\ fh \in [1..Len(fh) -> Ages] BY <2>1
    <2>. QED BY <1>11, <1>12, <2>2
<1>14. Remembers(fh, a) BY <1>9, <1>10, <1>13, FreshRemembers
<1>. QED BY <1>10, <1>13, <1>14

\* One more restart is remembered.
LEMMA OneMore ==
    ASSUME NEW s \in Seq(Ages)
    PROVE  /\ Append(s, 0) \in Seq(Ages) /\ Len(Append(s, 0)) = Len(s) + 1
           /\ Remembers(Append(s, 0), Append(s, 0))
<1>1. 0 \in Ages BY WindowType DEF Ages
<1>. DEFINE t == Append(s, 0)
<1>2. t \in Seq(Ages) /\ Len(t) = Len(s) + 1 /\ Len(t) \in Nat BY <1>1
<1>. HIDE DEF t
<1>3. Remembers(t, t) BY <1>2 DEF Remembers
<1>. QED BY <1>2, <1>3 DEF t

\* As time passes, what is too old stays so.
LEMMA OlderRemembers ==
    ASSUME NEW h \in Seq(Ages), NEW a \in Seq(Ages), Remembers(h, a)
    PROVE  /\ Older(h) \in Seq(Ages) /\ Older(a) \in Seq(Ages)
           /\ Len(Older(h)) = Len(h) /\ Remembers(Older(h), Older(a))
<1>1. ASSUME NEW s \in Seq(Ages)
      PROVE  /\ Older(s) \in Seq(Ages) /\ Len(Older(s)) = Len(s)
             /\ \A i \in 1..Len(s) : /\ s[i] \in Nat
                                     /\ Older(s)[i] = IF s[i] <= RestartWindow THEN s[i] + 1 ELSE s[i]
    <2>1. DOMAIN s = 1..Len(s) /\ Len(s) \in Nat OBVIOUS
    <2>2. ASSUME NEW i \in 1..Len(s)
          PROVE  s[i] \in Nat /\ (IF s[i] <= RestartWindow THEN s[i] + 1 ELSE s[i]) \in Ages
        <3>1. s[i] \in Ages OBVIOUS
        <3>. QED BY <3>1, WindowType DEF Ages
    <2>3. Older(s) = [i \in 1..Len(s) |-> IF s[i] <= RestartWindow THEN s[i] + 1 ELSE s[i]] BY <2>1 DEF Older
    <2>4. Older(s) \in [1..Len(s) -> Ages] BY <2>2, <2>3
    <2>5. Older(s) \in Seq(Ages) /\ Len(Older(s)) = Len(s) BY <2>1, <2>4
    <2>. QED BY <2>2, <2>3, <2>5
<1>2. Len(h) \in Nat /\ Len(a) \in Nat OBVIOUS
<1>3. Len(Older(h)) = Len(h) /\ Len(Older(a)) = Len(a) BY <1>1
<1>4. ASSUME NEW i \in 1..Len(h) PROVE Older(h)[i] = Older(a)[i + (Len(a) - Len(h))]
    <2>1. i + (Len(a) - Len(h)) \in 1..Len(a) BY <1>2 DEF Remembers
    <2>. DEFINE j == i + (Len(a) - Len(h))
    <2>2. h[i] = a[j] BY DEF Remembers
    <2>3. j \in 1..Len(a) BY <2>1
    <2>. HIDE DEF j
    <2>4. Older(h)[i] = IF h[i] <= RestartWindow THEN h[i] + 1 ELSE h[i] BY <1>1
    <2>5. Older(a)[j] = IF a[j] <= RestartWindow THEN a[j] + 1 ELSE a[j] BY <1>1, <2>3
    <2>6. Older(h)[i] = Older(a)[j] BY <2>2, <2>4, <2>5
    <2>. QED BY <2>6 DEF j
<1>5. ASSUME NEW i \in 1..(Len(a) - Len(h)) PROVE Older(a)[i] > RestartWindow
    <2>1. i \in 1..Len(a) /\ a[i] > RestartWindow BY <1>2 DEF Remembers
    <2>. QED BY <1>1, <2>1, WindowType
<1>6. Remembers(Older(h), Older(a)) BY <1>2, <1>3, <1>4, <1>5 DEF Remembers
<1>. QED BY <1>1, <1>3, <1>6

-----------------------------------------------------------------------------
(* Every step of the watchdog, and the theorem *)

LEMMA WatchdogInitSound == WatchdogInit => WatchdogInv
<1>. SUFFICES ASSUME WatchdogInit PROVE WatchdogInv OBVIOUS
<1>1. restartHist \in [Watched -> Seq(Ages)] /\ restarts \in [Watched -> Seq(Ages)] BY DEF WatchdogInit
<1>2. ASSUME NEW p \in Watched
      PROVE  Len(restartHist[p]) <= MaxRestarts /\ Remembers(restartHist[p], restarts[p])
    <2>1. restartHist[p] = <<>> /\ restarts[p] = <<>> BY DEF WatchdogInit
    <2>. QED BY <2>1, WindowType DEF Remembers
<1>. QED BY <1>1, <1>2 DEF WatchdogInv

\* A visit restarts a preset if less than MaxRestarts are remembered, and only
\* then.
LEMMA VisitSound == ASSUME WatchdogInv, NEW q \in Watched, NEW ok \in BOOLEAN, Visit(q, ok) PROVE WatchdogInv'
<1>. DEFINE h == restartHist[q]
            a == restarts[q]
<1>1. /\ restartHist \in [Watched -> Seq(Ages)] /\ restarts \in [Watched -> Seq(Ages)]
      /\ h \in Seq(Ages) /\ a \in Seq(Ages) /\ Len(h) <= MaxRestarts /\ Remembers(h, a)
    BY DEF WatchdogInv
<1>2. \/ /\ Len(Fresh(h)) < MaxRestarts
         /\ restartHist' = [restartHist EXCEPT ![q] = Append(Fresh(h), 0)]
         /\ restarts' = [restarts EXCEPT ![q] = Append(Fresh(a), 0)]
      \/ restartHist' = [restartHist EXCEPT ![q] = Fresh(h)] /\ restarts' = restarts
      \/ UNCHANGED <<restartHist, restarts>>
    BY DEF Visit, Restarts, Remembered, Purged
<1>3. /\ Fresh(h) \in Seq(Ages) /\ Fresh(a) \in Seq(Ages) /\ Fresh(a) = Fresh(h)
      /\ Len(Fresh(h)) <= Len(h) /\ Remembers(Fresh(h), a)
    BY <1>1, FreshRemembers, FreshOfRemembered
<1>. HIDE DEF h, a
<1>4. Len(Fresh(h)) \in Nat /\ Len(h) \in Nat /\ MaxRestarts \in Nat BY <1>1, <1>3, WindowType
<1>5. CASE /\ Len(Fresh(h)) < MaxRestarts
           /\ restartHist' = [restartHist EXCEPT ![q] = Append(Fresh(h), 0)]
           /\ restarts' = [restarts EXCEPT ![q] = Append(Fresh(a), 0)]
    <2>. DEFINE n == Append(Fresh(h), 0)
    <2>1. n \in Seq(Ages) /\ Len(n) = Len(Fresh(h)) + 1 /\ Remembers(n, n) BY <1>3, OneMore
    <2>2. restartHist' = [restartHist EXCEPT ![q] = n] /\ restarts' = [restarts EXCEPT ![q] = n] BY <1>3, <1>5
    <2>. HIDE DEF n
    <2>3. Len(n) <= MaxRestarts BY <1>4, <1>5, <2>1
    <2>. QED BY <1>1, <2>1, <2>2, <2>3 DEF WatchdogInv
<1>6. CASE restartHist' = [restartHist EXCEPT ![q] = Fresh(h)] /\ restarts' = restarts
    <2>1. Len(Fresh(h)) <= MaxRestarts BY <1>1, <1>3, <1>4
    <2>. QED BY <1>1, <1>3, <1>6, <2>1 DEF WatchdogInv, a
<1>7. CASE UNCHANGED <<restartHist, restarts>> BY <1>7 DEF WatchdogInv
<1>. QED BY <1>2, <1>5, <1>6, <1>7

LEMMA TickSound == ASSUME WatchdogInv, Tick PROVE WatchdogInv'
<1>1. /\ restartHist' = [p \in Watched |-> Older(restartHist[p])]
      /\ restarts' = [p \in Watched |-> Older(restarts[p])]
    BY DEF Tick
<1>2. ASSUME NEW p \in Watched
      PROVE  /\ restartHist'[p] \in Seq(Ages) /\ restarts'[p] \in Seq(Ages)
             /\ Len(restartHist'[p]) <= MaxRestarts /\ Remembers(restartHist'[p], restarts'[p])
    <2>1. /\ restartHist[p] \in Seq(Ages) /\ restarts[p] \in Seq(Ages)
          /\ Len(restartHist[p]) <= MaxRestarts /\ Remembers(restartHist[p], restarts[p])
        BY DEF WatchdogInv
    <2>2. restartHist'[p] = Older(restartHist[p]) /\ restarts'[p] = Older(restarts[p]) BY <1>1
    <2>. QED BY <2>1, <2>2, OlderRemembers
<1>. QED BY <1>1, <1>2 DEF WatchdogInv

LEMMA WatchdogStep == WatchdogInv /\ [WatchdogNext]_watchdogVars => WatchdogInv'
<1>. SUFFICES ASSUME WatchdogInv, [WatchdogNext]_watchdogVars PROVE WatchdogInv' OBVIOUS
<1>1. CASE Tick BY <1>1, TickSound
<1>2. ASSUME NEW p \in Watched, NEW ok \in BOOLEAN, Visit(p, ok) PROVE WatchdogInv' BY <1>2, VisitSound
<1>3. ASSUME UNCHANGED <<restartHist, restarts>> PROVE WatchdogInv' BY <1>3 DEF WatchdogInv
<1>4. ASSUME NEW p \in Watched, Visited(p) \/ Toggles(p) PROVE WatchdogInv'
    BY <1>2, <1>3, <1>4 DEF Visited, Skip, Toggles
<1>5. ASSUME NEW p \in Watched, NEW m \in AllTargets, Hangs(p, m) \/ Recovers(p, m) PROVE WatchdogInv'
    BY <1>3, <1>5 DEF Hangs, Recovers
<1>6. ASSUME NEW p \in Routers, NEW m \in RouterModels, LoadsOther(p, m) PROVE WatchdogInv'
    BY <1>3, <1>6 DEF LoadsOther
<1>7. CASE UNCHANGED watchdogVars BY <1>3, <1>7 DEF watchdogVars
<1>. QED BY <1>1, <1>4, <1>5, <1>6, <1>7 DEF WatchdogNext

\* Restarts in the window are restarts that are remembered.
LEMMA RememberedAreFew == WatchdogInv => WatchdogSpares
<1>. SUFFICES ASSUME WatchdogInv, NEW p \in Watched
              PROVE  Cardinality({i \in DOMAIN restarts[p] : restarts[p][i] <= RestartWindow}) <= MaxRestarts
    BY DEF WatchdogSpares
<1>0. PICK h, a : h = restartHist[p] /\ a = restarts[p] OBVIOUS
<1>. DEFINE k == Len(a) - Len(h)
            S == {i \in DOMAIN a : a[i] <= RestartWindow}
<1>1. h \in Seq(Ages) /\ a \in Seq(Ages) /\ Len(h) <= MaxRestarts /\ Remembers(h, a) BY <1>0 DEF WatchdogInv
<1>2. /\ Len(h) \in Nat /\ Len(a) \in Nat /\ k \in Nat /\ MaxRestarts \in Nat /\ RestartWindow \in Nat
      /\ \A i \in 1..k : a[i] > RestartWindow
      /\ DOMAIN a = 1..Len(a) /\ \A i \in 1..Len(a) : a[i] \in Nat
    BY <1>1, WindowType DEF Remembers, Ages
<1>3. S \subseteq (k + 1)..Len(a)
    <2>. SUFFICES ASSUME NEW i \in S PROVE i \in (k + 1)..Len(a) OBVIOUS
    <2>1. i \in 1..Len(a) /\ a[i] <= RestartWindow /\ a[i] \in Nat BY <1>2
    <2>2. ~(i <= k) BY <1>2, <2>1
    <2>. QED BY <1>2, <2>1, <2>2
<1>4. (k + 1) \in Int /\ Len(a) \in Int BY <1>2
<1>5. /\ IsFiniteSet((k + 1)..Len(a))
      /\ Cardinality((k + 1)..Len(a)) = IF k + 1 > Len(a) THEN 0 ELSE Len(a) - (k + 1) + 1
    <2>. HIDE DEF k
    <2>. QED BY <1>4, FS_Interval
<1>6. Cardinality((k + 1)..Len(a)) <= MaxRestarts BY <1>1, <1>2, <1>5
<1>7. Cardinality(S) <= Cardinality((k + 1)..Len(a)) /\ Cardinality(S) \in Nat
      /\ Cardinality((k + 1)..Len(a)) \in Nat
    <2>. HIDE DEF k, S
    <2>. QED BY <1>3, <1>5, FS_Subset, FS_CardinalityType
<1>8. Cardinality(S) <= MaxRestarts BY <1>2, <1>6, <1>7
<1>. QED BY <1>0, <1>8

\* However a preset hangs, recovers, is stopped and started, and whether its
\* restarts work or not, watchdog_loop() restarts it at most MaxRestarts times
\* in a window.
THEOREM RestartsAreFew == WatchdogSpec => []WatchdogSpares
<1>. QED BY WatchdogInitSound, WatchdogStep, RememberedAreFew, PTL DEF WatchdogSpec

-----------------------------------------------------------------------------
(* The rpc-servers: the inductive invariant *)

\* A start that did not spawn yet has no process; one whose entry was dropped
\* is known to be crowded.
NotYetThere ==
    \A s \in RpcStarts :
        /\ rpcStart[s].at \in {"none", "spawning", "adrift"} => rpcProc[s] = "none"
        /\ rpcStart[s].at = "adrift" => s \in crowded

\* A handle is a process of this server.
HandlesFit ==
    /\ \A n \in RpcNames : rpcHandle[n] # NoStart =>
          rpcStart[rpcHandle[n]].name = n /\ rpcProc[rpcHandle[n]] # "none"
    /\ \A p \in rpcStopping : rpcProc[p] # "none"

\* Where a start waits for its process, nothing else of this server lives or
\* starts, but what is crowded.
StartsAlone ==
    \A t \in RpcStarts : rpcStart[t].at = "spawning" =>
        /\ rpcStart[t].name \in DOMAIN rpcTable
        /\ \A s \in RpcStarts \ {t} : rpcStart[s].name = rpcStart[t].name /\ s \notin crowded =>
              ~RpcAlive(s) /\ rpcStart[s].at # "spawning"

\* A stop awaits the end of the process that the handle will forget.
StopsItsOwn ==
    \A p \in rpcStopping : \A s \in RpcStarts \ {p} :
        rpcStart[s].name = rpcStart[p].name /\ s \notin crowded => ~RpcAlive(s)

RpcInv == RpcTypeOK /\ RpcWithinReach /\ NotYetThere /\ HandlesFit /\ StartsAlone /\ StopsItsOwn

-----------------------------------------------------------------------------
(* Names in a line *)

LEMMA LinesAre ==
    \A line : line \in Lines <=>
        /\ DOMAIN line \subseteq RpcNames /\ line \in [DOMAIN line -> SUBSET DOMAIN line]
        /\ InLine(line)
<1>1. ASSUME NEW line \in Lines PROVE DOMAIN line \subseteq RpcNames /\ line \in [DOMAIN line -> SUBSET DOMAIN line]
    <2>1. PICK names \in SUBSET RpcNames : line \in [names -> SUBSET names] BY DEF Lines
    <2>. QED BY <2>1
<1>2. ASSUME NEW line, DOMAIN line \subseteq RpcNames, line \in [DOMAIN line -> SUBSET DOMAIN line], InLine(line)
      PROVE  line \in Lines
    BY <1>2 DEF Lines
<1>. QED BY <1>1, <1>2 DEF Lines

\* The table follows the settings and stays in line: what is kept in front, in
\* the order it had, what is new behind.
LEMMA SyncedIsALine ==
    ASSUME rpcSettings \in Lines, rpcTable \in Lines
    PROVE  Synced \in Lines /\ DOMAIN Synced = KeptNames \union Added
<1>. DEFINE old == rpcTable
            new == rpcSettings
            line == Synced
            K == KeptNames
            A == Added
<1>1. /\ DOMAIN old \subseteq RpcNames /\ old \in [DOMAIN old -> SUBSET DOMAIN old] /\ InLine(old)
      /\ DOMAIN new \subseteq RpcNames /\ new \in [DOMAIN new -> SUBSET DOMAIN new] /\ InLine(new)
    BY LinesAre
<1>2. /\ K \subseteq DOMAIN old /\ A \subseteq DOMAIN new /\ K \intersect A = {}
    BY DEF KeptNames, Added
<1>3. /\ DOMAIN line = K \union A
      /\ \A n \in A : line[n] = K \union (new[n] \intersect A)
      /\ \A n \in K : line[n] = old[n] \intersect K
    <2>1. \A n \in K \union A : line[n] = IF n \in A THEN K \union (new[n] \intersect A) ELSE old[n] \intersect K
        BY DEF Synced
    <2>2. DOMAIN line = K \union A BY DEF Synced
    <2>. HIDE DEF line, K, A
    <2>. QED BY <1>2, <2>1, <2>2
<1>4. line \in [DOMAIN line -> SUBSET DOMAIN line]
    <2>1. line = [n \in DOMAIN line |-> line[n]] BY DEF Synced
    <2>. HIDE DEF line, K, A
    <2>2. \A n \in DOMAIN line : line[n] \in SUBSET DOMAIN line BY <1>2, <1>3
    <2>. QED BY <2>1, <2>2
<1>. HIDE DEF line, K, A, old, new
<1>5. InLine(line)
    <2>. SUFFICES ASSUME NEW n \in DOMAIN line, NEW m \in DOMAIN line
                  PROVE  /\ n \notin line[n]
                         /\ n # m => n \in line[m] \/ m \in line[n]
                         /\ m \in line[n] => line[m] \subseteq line[n]
        BY DEF InLine
    <2>1. CASE n \in K /\ m \in K
        <3>1. /\ n \notin old[n] /\ (n # m => n \in old[m] \/ m \in old[n])
              /\ m \in old[n] => old[m] \subseteq old[n]
            BY <1>1, <1>2, <2>1 DEF InLine
        <3>. QED BY <1>3, <2>1, <3>1
    <2>2. CASE n \in A /\ m \in A
        <3>1. /\ n \notin new[n] /\ (n # m => n \in new[m] \/ m \in new[n])
              /\ m \in new[n] => new[m] \subseteq new[n]
            BY <1>1, <1>2, <2>2 DEF InLine
        <3>. QED BY <1>2, <1>3, <2>2, <3>1
    <2>3. CASE n \in K /\ m \in A
        <3>1. n \notin old[n] BY <1>1, <1>2, <2>3 DEF InLine
        <3>. QED BY <1>2, <1>3, <2>3, <3>1
    <2>4. CASE n \in A /\ m \in K
        <3>1. n \notin new[n] BY <1>1, <1>2, <2>4 DEF InLine
        <3>. QED BY <1>2, <1>3, <2>4, <3>1
    <2>. QED BY <1>3, <2>1, <2>2, <2>3, <2>4
<1>6. DOMAIN line \subseteq RpcNames BY <1>1, <1>2, <1>3
<1>7. line \in Lines BY <1>4, <1>5, <1>6, LinesAre
<1>8. DOMAIN line = K \union A BY <1>3
<1>. QED BY <1>7, <1>8 DEF line, K, A

\* What is kept stays in its order, and what is new comes behind it, in the
\* order of the settings: the table stays in order if it was.
LEMMA SyncedInOrder ==
    ASSUME rpcSettings \in Lines, rpcTable \in Lines, InOrder(rpcSettings, rpcTable)
    PROVE  InOrder(rpcSettings, Synced)
<1>1. DOMAIN Synced = KeptNames \union Added BY SyncedIsALine
<1>2. /\ DOMAIN rpcSettings \subseteq RpcNames /\ rpcSettings \in [DOMAIN rpcSettings -> SUBSET DOMAIN rpcSettings]
      /\ rpcTable \in [DOMAIN rpcTable -> SUBSET DOMAIN rpcTable]
    BY LinesAre
<1>3. \A n \in KeptNames \union Added : Synced[n] =
          IF n \in Added THEN KeptNames \union (rpcSettings[n] \intersect Added) ELSE rpcTable[n] \intersect KeptNames
    BY DEF Synced
<1>4. ASSUME NEW n \in DOMAIN rpcSettings, n \in KeptNames \union Added, NEW m \in rpcSettings[n] PROVE m \in Synced[n]
    <2>1. m \in DOMAIN rpcSettings BY <1>2, <1>4
    <2>2. m \in Added \/ m \in KeptNames BY <2>1 DEF KeptNames, Added
    <2>3. CASE n \in Added BY <1>3, <1>4, <2>2, <2>3
    <2>4. CASE n \notin Added
        <3>1. n \in KeptNames /\ n \in DOMAIN rpcTable BY <1>4, <2>4 DEF KeptNames
        <3>2. m \in rpcTable[n] /\ m \in DOMAIN rpcTable BY <1>2, <1>4, <3>1 DEF InOrder
        <3>3. m \in KeptNames BY <2>1, <3>2 DEF KeptNames
        <3>. QED BY <1>3, <2>4, <3>1, <3>2, <3>3
    <2>. QED BY <2>3, <2>4
<1>. QED BY <1>1, <1>4 DEF InOrder

-----------------------------------------------------------------------------
(* What a call does to the table *)

\* What lives alone is kept, with its handle.
LEMMA AloneIsKept ==
    ASSUME RpcInv, NEW s \in RpcStarts, RpcAlive(s), s \notin crowded
    PROVE  /\ rpcStart[s].name \in RpcNames /\ rpcStart[s].name \in KeptNames
           /\ rpcStart[s].name \notin Dropped
           /\ HandlesSynced[rpcStart[s].name] = s /\ Owned(rpcStart[s].name)
<1>. DEFINE n == rpcStart[s].name
<1>1. n \in RpcNames BY DEF RpcInv, RpcTypeOK, RpcStart
<1>2. rpcHandle[n] = s /\ n \in DOMAIN rpcTable BY DEF RpcInv, RpcWithinReach
<1>3. s # NoStart BY RpcAssumption
<1>4. Owned(n) BY <1>2, <1>3 DEF Owned
<1>5. n \in KeptNames /\ n \notin Dropped BY <1>2, <1>4 DEF KeptNames, Dropped
<1>. QED BY <1>1, <1>2, <1>4, <1>5 DEF HandlesSynced

\* Where a start is after the table is synchronized.
LEMMA SyncedStarts ==
    ASSUME RpcInv
    PROVE  /\ StartsSynced \in [RpcStarts -> RpcStart]
           /\ HandlesSynced \in [RpcNames -> RpcStarts \union {NoStart}]
           /\ \A n \in RpcNames : HandlesSynced[n] = NoStart \/ HandlesSynced[n] = rpcHandle[n]
           /\ Cast \subseteq RpcStarts
           /\ \A t \in RpcStarts :
                 /\ StartsSynced[t].name = rpcStart[t].name
                 /\ StartsSynced[t].at = IF t \in Cast THEN "adrift" ELSE rpcStart[t].at
                 /\ t \in Cast => rpcStart[t].at = "spawning"
                 /\ rpcStart[t].at = "spawning" /\ t \notin Cast => rpcStart[t].name \in KeptNames
<1>1. rpcStart \in [RpcStarts -> RpcStart] /\ rpcHandle \in [RpcNames -> RpcStarts \union {NoStart}]
    BY DEF RpcInv, RpcTypeOK
<1>2. Cast \subseteq RpcStarts /\ \A t \in Cast : rpcStart[t].at = "spawning" BY DEF Cast, Spawning
<1>3. ASSUME NEW t \in RpcStarts
      PROVE  /\ StartsSynced[t] \in RpcStart /\ StartsSynced[t].name = rpcStart[t].name
             /\ StartsSynced[t].at = IF t \in Cast THEN "adrift" ELSE rpcStart[t].at
    BY <1>1 DEF StartsSynced, RpcStart
<1>4. ASSUME NEW t \in RpcStarts, rpcStart[t].at = "spawning", t \notin Cast PROVE rpcStart[t].name \in KeptNames
    <2>1. rpcStart[t].name \in DOMAIN rpcTable BY <1>4 DEF RpcInv, StartsAlone
    <2>2. rpcStart[t].name \notin Dropped BY <1>4 DEF Cast, Spawning
    <2>. QED BY <2>1, <2>2 DEF Dropped
<1>5. StartsSynced \in [RpcStarts -> RpcStart] BY <1>3 DEF StartsSynced
<1>6. /\ HandlesSynced \in [RpcNames -> RpcStarts \union {NoStart}]
      /\ \A n \in RpcNames : HandlesSynced[n] = NoStart \/ HandlesSynced[n] = rpcHandle[n]
    BY <1>1 DEF HandlesSynced
<1>. QED BY <1>2, <1>3, <1>4, <1>5, <1>6

\* stop() and all() keep the invariant: they forget handles of what does not
\* live, and stop what they have a handle of.
LEMMA SyncSound ==
    ASSUME RpcInv,
           rpcTable' = Synced, UNCHANGED <<rpcSettings, rpcProc, external, moved>>,
           rpcStart' = StartsSynced, crowded' = crowded \union Cast,
           rpcHandle' \in [RpcNames -> RpcStarts \union {NoStart}],
           \A n \in RpcNames : \/ rpcHandle'[n] = HandlesSynced[n]
                               \/ rpcHandle'[n] = NoStart /\ ~Owned(n),
           \A p \in rpcStopping' : p \in rpcStopping \/ \E n \in RpcNames : Owned(n) /\ p = rpcHandle[n]
    PROVE  RpcInv'
<1>1. RpcTypeOK /\ RpcWithinReach /\ NotYetThere /\ HandlesFit /\ StartsAlone /\ StopsItsOwn BY DEF RpcInv
<1>2. RpcTypeOK'
    <2>1. Synced \in Lines BY <1>1, SyncedIsALine DEF RpcTypeOK
    <2>2. rpcStopping' \subseteq RpcStarts BY <1>1 DEF RpcTypeOK, Owned
    <2>. QED BY <1>1, <2>1, <2>2, SyncedStarts DEF RpcTypeOK
<1>3. \A s \in RpcStarts : RpcAlive(s)' <=> RpcAlive(s) BY DEF RpcAlive
<1>4. DOMAIN rpcTable' = KeptNames \union Added BY <1>1, SyncedIsALine DEF RpcTypeOK
<1>5. \A s \in RpcStarts : /\ rpcStart'[s].name = rpcStart[s].name
                           /\ rpcStart'[s].at = IF s \in Cast THEN "adrift" ELSE rpcStart[s].at
    BY SyncedStarts
<1>6. RpcWithinReach'
    <2>. SUFFICES ASSUME NEW s \in RpcStarts, RpcAlive(s)', s \notin crowded'
                  PROVE  /\ rpcHandle'[rpcStart'[s].name] = s
                         /\ rpcStart'[s].name \in DOMAIN rpcTable'
        BY DEF RpcWithinReach
    <2>. QED BY <1>3, <1>4, <1>5, AloneIsKept
<1>7. NotYetThere' BY <1>1, <1>5, SyncedStarts DEF NotYetThere
<1>8. HandlesFit'
    <2>1. ASSUME NEW n \in RpcNames, rpcHandle'[n] # NoStart
          PROVE  rpcStart'[rpcHandle'[n]].name = n /\ rpcProc'[rpcHandle'[n]] # "none"
        <3>1. rpcHandle'[n] = rpcHandle[n] /\ rpcHandle[n] \in RpcStarts BY <1>1, <2>1, SyncedStarts DEF RpcTypeOK
        <3>. QED BY <1>1, <1>5, <2>1, <3>1 DEF HandlesFit
    <2>2. ASSUME NEW p \in rpcStopping' PROVE rpcProc[p] # "none" BY <1>1 DEF HandlesFit, Owned, RpcAlive
    <2>. QED BY <2>1, <2>2 DEF HandlesFit
<1>9. StartsAlone'
    <2>. SUFFICES ASSUME NEW t \in RpcStarts, rpcStart'[t].at = "spawning"
                  PROVE  /\ rpcStart'[t].name \in DOMAIN rpcTable'
                         /\ \A s \in RpcStarts \ {t} : rpcStart'[s].name = rpcStart'[t].name /\ s \notin crowded' =>
                               ~RpcAlive(s)' /\ rpcStart'[s].at # "spawning"
        BY DEF StartsAlone
    <2>1. t \notin Cast /\ rpcStart[t].at = "spawning" BY <1>5
    <2>2. rpcStart[t].name \in KeptNames BY <2>1, SyncedStarts
    <2>. QED BY <1>1, <1>3, <1>4, <1>5, <2>1, <2>2 DEF StartsAlone
<1>10. StopsItsOwn'
    <2>. SUFFICES ASSUME NEW p \in rpcStopping', NEW s \in RpcStarts \ {p},
                         rpcStart[s].name = rpcStart[p].name, s \notin crowded, RpcAlive(s)
                  PROVE  FALSE
        BY <1>2, <1>3, <1>5 DEF StopsItsOwn, RpcTypeOK
    <2>1. PICK n \in RpcNames : Owned(n) /\ p = rpcHandle[n] BY <1>1 DEF StopsItsOwn
    <2>2. rpcStart[p].name = n BY <1>1, <2>1 DEF HandlesFit, Owned
    <2>3. rpcHandle[n] = s BY <1>1, <2>2 DEF RpcWithinReach
    <2>. QED BY <2>1, <2>3
<1>. QED BY <1>2, <1>6, <1>7, <1>8, <1>9, <1>10 DEF RpcInv

-----------------------------------------------------------------------------
(* Every step of the rpc-servers, and the theorem *)

LEMMA RpcInitSound == RpcInit => RpcInv
<1>. SUFFICES ASSUME RpcInit PROVE RpcInv OBVIOUS
<1>. USE DEF RpcInit
<1>1. NoLine \in Lines
    <2>1. DOMAIN NoLine = {} /\ NoLine \in [{} -> SUBSET {}] BY DEF NoLine
    <2>2. InLine(NoLine) BY <2>1 DEF InLine
    <2>. QED BY <2>1, <2>2, LinesAre
<1>2. \A s \in RpcStarts : rpcStart[s].at = "none" /\ rpcProc[s] = "none" OBVIOUS
<1>3. RpcTypeOK
    <2>1. (CHOOSE n \in RpcNames : TRUE) \in RpcNames BY RpcAssumption
    <2>. QED BY <1>1, <2>1 DEF RpcTypeOK, RpcStart
<1>. QED BY <1>2, <1>3 DEF RpcInv, RpcWithinReach, NotYetThere, HandlesFit, StartsAlone, StopsItsOwn, RpcAlive

LEMMA StartRpcSound ==
    ASSUME RpcInv, NEW s \in RpcStarts, NEW n \in RpcNames, StartRpc(s, n)
    PROVE  RpcInv'
<1>. DEFINE others == Spawning(n)
            more == IF others = {} THEN {} ELSE others \union {s}
<1>1. RpcTypeOK /\ RpcWithinReach /\ NotYetThere /\ HandlesFit /\ StartsAlone /\ StopsItsOwn BY DEF RpcInv
<1>2. /\ rpcStart[s].at = "none" /\ n \in DOMAIN Synced /\ ~Owned(n)
      /\ rpcTable' = Synced /\ rpcHandle' = HandlesSynced
      /\ rpcStopping' = {p \in rpcStopping : rpcStart[p].name \notin Dropped}
      /\ rpcStart' = [StartsSynced EXCEPT ![s] = [at |-> "spawning", name |-> n]]
      /\ crowded' = (crowded \union Cast) \union more
      /\ UNCHANGED <<rpcSettings, rpcProc, external, moved>>
    BY DEF StartRpc, SyncsTable, IsRunning
<1>3. rpcProc[s] = "none" BY <1>1, <1>2 DEF NotYetThere
<1>4. \A t \in RpcStarts : RpcAlive(t)' <=> RpcAlive(t) BY <1>2 DEF RpcAlive
<1>5. DOMAIN rpcTable' = KeptNames \union Added /\ Synced \in Lines BY <1>1, <1>2, SyncedIsALine DEF RpcTypeOK
<1>6. /\ rpcStart'[s] = [at |-> "spawning", name |-> n]
      /\ \A t \in RpcStarts \ {s} : /\ rpcStart'[t].name = rpcStart[t].name
                                    /\ rpcStart'[t].at = IF t \in Cast THEN "adrift" ELSE rpcStart[t].at
      /\ rpcStart' \in [RpcStarts -> RpcStart]
    BY <1>2, SyncedStarts DEF RpcStart
<1>7. more \subseteq RpcStarts /\ others = {t \in RpcStarts : rpcStart[t].at = "spawning" /\ rpcStart[t].name = n}
    BY DEF Spawning
<1>. HIDE DEF others, more
<1>8. RpcTypeOK' BY <1>1, <1>2, <1>5, <1>6, <1>7, SyncedStarts DEF RpcTypeOK
<1>9. ~RpcAlive(s) BY <1>3 DEF RpcAlive
<1>10. RpcWithinReach'
    <2>. SUFFICES ASSUME NEW t \in RpcStarts, RpcAlive(t)', t \notin crowded'
                  PROVE  /\ rpcHandle'[rpcStart'[t].name] = t
                         /\ rpcStart'[t].name \in DOMAIN rpcTable'
        BY DEF RpcWithinReach
    <2>1. t # s /\ RpcAlive(t) /\ t \notin crowded BY <1>2, <1>4, <1>9
    <2>. QED BY <1>2, <1>5, <1>6, <2>1, AloneIsKept
<1>11. NotYetThere' BY <1>1, <1>2, <1>3, <1>6, SyncedStarts DEF NotYetThere
<1>12. HandlesFit'
    <2>1. ASSUME NEW m \in RpcNames, rpcHandle'[m] # NoStart
          PROVE  rpcStart'[rpcHandle'[m]].name = m /\ rpcProc'[rpcHandle'[m]] # "none"
        <3>1. rpcHandle'[m] = rpcHandle[m] /\ rpcHandle[m] \in RpcStarts
            BY <1>1, <1>2, <2>1, SyncedStarts DEF RpcTypeOK
        <3>2. rpcStart[rpcHandle[m]].name = m /\ rpcProc[rpcHandle[m]] # "none" BY <1>1, <2>1, <3>1 DEF HandlesFit
        <3>. QED BY <1>2, <1>3, <1>6, <3>1, <3>2
    <2>. QED BY <1>1, <1>2, <2>1 DEF HandlesFit
<1>13. StartsAlone'
    <2>. SUFFICES ASSUME NEW t \in RpcStarts, rpcStart'[t].at = "spawning"
                  PROVE  /\ rpcStart'[t].name \in DOMAIN rpcTable'
                         /\ \A u \in RpcStarts \ {t} : rpcStart'[u].name = rpcStart'[t].name /\ u \notin crowded' =>
                               ~RpcAlive(u)' /\ rpcStart'[u].at # "spawning"
        BY DEF StartsAlone
    <2>1. CASE t = s
        <3>1. ASSUME NEW u \in RpcStarts \ {s}, rpcStart'[u].name = n, u \notin crowded'
              PROVE  ~RpcAlive(u) /\ rpcStart'[u].at # "spawning"
            <4>1. u \notin others BY <1>2, <3>1 DEF more
            <4>2. rpcStart[u].at # "spawning" BY <1>6, <1>7, <3>1, <4>1
            <4>3. RpcAlive(u) => Owned(n) BY <1>2, <1>6, <3>1, AloneIsKept
            <4>. QED BY <1>2, <1>6, <3>1, <4>2, <4>3
        <3>. QED BY <1>2, <1>4, <1>6, <2>1, <3>1
    <2>2. CASE t # s
        <3>1. t \notin Cast /\ rpcStart[t].at = "spawning" /\ rpcStart[t].name \in KeptNames BY <1>6, <2>2, SyncedStarts
        <3>2. s \notin crowded' => rpcStart[t].name # n BY <1>2, <1>7, <3>1 DEF more
        <3>3. ASSUME NEW u \in RpcStarts \ {t}, rpcStart'[u].name = rpcStart'[t].name, u \notin crowded'
              PROVE  ~RpcAlive(u) /\ rpcStart'[u].at # "spawning"
            <4>1. u # s BY <1>6, <2>2, <3>2, <3>3
            <4>. QED BY <1>1, <1>2, <1>6, <2>2, <3>1, <3>3, <4>1 DEF StartsAlone
        <3>. QED BY <1>4, <1>5, <1>6, <2>2, <3>1, <3>3
    <2>. QED BY <2>1, <2>2
<1>14. StopsItsOwn'
    <2>1. s \notin rpcStopping BY <1>1, <1>3 DEF HandlesFit
    <2>. QED BY <1>1, <1>2, <1>4, <1>6, <1>9, <2>1 DEF StopsItsOwn, RpcTypeOK
<1>. QED BY <1>8, <1>10, <1>11, <1>12, <1>13, <1>14 DEF RpcInv

LEMMA SpawnedSound == ASSUME RpcInv, NEW s \in RpcStarts, Spawned(s) PROVE RpcInv'
<1>. DEFINE n == rpcStart[s].name
            late == {t \in {s} : \E p \in rpcStopping : rpcStart[p].name = n}
<1>1. RpcTypeOK /\ RpcWithinReach /\ NotYetThere /\ HandlesFit /\ StartsAlone /\ StopsItsOwn BY DEF RpcInv
<1>2. /\ rpcStart[s].at \in {"spawning", "adrift"}
      /\ rpcStart' = [rpcStart EXCEPT ![s].at = "polling"]
      /\ rpcProc' = [rpcProc EXCEPT ![s] = "loading"]
      /\ rpcStart[s].at = "spawning" => /\ rpcHandle' = [rpcHandle EXCEPT ![n] = s]
                                        /\ crowded' = crowded \union late
      /\ rpcStart[s].at # "spawning" => UNCHANGED <<rpcHandle, crowded>>
      /\ UNCHANGED <<rpcSettings, rpcTable, rpcStopping, external, moved>>
    BY DEF Spawned
<1>3. late \subseteq {s} /\ n \in RpcNames BY <1>1 DEF RpcTypeOK, RpcStart
<1>4. /\ rpcStart' \in [RpcStarts -> RpcStart] /\ rpcStart'[s].at = "polling"
      /\ \A t \in RpcStarts : /\ rpcStart'[t].name = rpcStart[t].name
                              /\ t # s => rpcStart'[t].at = rpcStart[t].at
    BY <1>1, <1>2 DEF RpcTypeOK, RpcStart
<1>5. /\ rpcProc' \in [RpcStarts -> {"none", "loading", "open", "dead"}] /\ rpcProc'[s] = "loading"
      /\ \A t \in RpcStarts \ {s} : rpcProc'[t] = rpcProc[t]
    BY <1>1, <1>2 DEF RpcTypeOK
<1>6. \A t \in RpcStarts \ {s} : RpcAlive(t)' <=> RpcAlive(t) BY <1>5 DEF RpcAlive
<1>7. \A m \in RpcNames : rpcHandle'[m] = IF rpcStart[s].at = "spawning" /\ m = n THEN s ELSE rpcHandle[m]
    BY <1>1, <1>2 DEF RpcTypeOK
<1>8. s \notin rpcStopping BY <1>1, <1>2 DEF NotYetThere, HandlesFit
<1>9. RpcTypeOK' BY <1>1, <1>2, <1>3, <1>4, <1>5 DEF RpcTypeOK
<1>10. crowded \subseteq crowded' /\ crowded' \subseteq crowded \union {s} BY <1>2, <1>3
<1>. HIDE DEF late
<1>11. CASE rpcStart[s].at = "spawning"
    <2>1. \A t \in RpcStarts \ {s} : rpcStart[t].name = n /\ t \notin crowded =>
              ~RpcAlive(t) /\ rpcStart[t].at # "spawning"
        BY <1>1, <1>11 DEF StartsAlone
    <2>2. n \in DOMAIN rpcTable BY <1>1, <1>11 DEF StartsAlone
    <2>3. RpcWithinReach'
        <3>. SUFFICES ASSUME NEW t \in RpcStarts, RpcAlive(t)', t \notin crowded'
                      PROVE  /\ rpcHandle'[rpcStart'[t].name] = t
                             /\ rpcStart'[t].name \in DOMAIN rpcTable'
            BY DEF RpcWithinReach
        <3>1. CASE t = s BY <1>2, <1>3, <1>4, <1>7, <1>11, <2>2, <3>1
        <3>2. CASE t # s
            <4>1. RpcAlive(t) /\ t \notin crowded BY <1>6, <1>10, <3>2
            <4>2. rpcStart[t].name # n BY <2>1, <3>2, <4>1
            <4>3. rpcStart[t].name \in RpcNames BY <1>1 DEF RpcTypeOK, RpcStart
            <4>. QED BY <1>1, <1>2, <1>4, <1>7, <4>1, <4>2, <4>3 DEF RpcWithinReach
        <3>. QED BY <3>1, <3>2
    <2>4. HandlesFit'
        <3>1. ASSUME NEW m \in RpcNames, rpcHandle'[m] # NoStart
              PROVE  rpcStart'[rpcHandle'[m]].name = m /\ rpcProc'[rpcHandle'[m]] # "none"
            <4>1. CASE m = n BY <1>4, <1>5, <1>7, <1>11, <4>1
            <4>2. CASE m # n
                <5>1. rpcHandle'[m] = rpcHandle[m] /\ rpcHandle[m] \in RpcStarts
                    BY <1>1, <1>7, <3>1, <4>2 DEF RpcTypeOK
                <5>2. rpcStart[rpcHandle[m]].name = m /\ rpcProc[rpcHandle[m]] # "none"
                    BY <1>1, <3>1, <5>1 DEF HandlesFit
                <5>. QED BY <1>4, <1>5, <5>1, <5>2
            <4>. QED BY <4>1, <4>2
        <3>. QED BY <1>1, <1>2, <1>5, <1>8, <3>1 DEF HandlesFit, RpcTypeOK
    <2>5. StopsItsOwn'
        <3>. SUFFICES ASSUME NEW p \in rpcStopping, NEW t \in RpcStarts \ {p},
                             rpcStart[t].name = rpcStart[p].name, t \notin crowded'
                      PROVE  ~RpcAlive(t)'
            BY <1>1, <1>2, <1>4 DEF StopsItsOwn, RpcTypeOK
        <3>1. CASE t = s
            <4>1. s \in late BY <3>1 DEF late
            <4>. QED BY <1>2, <1>11, <3>1, <4>1
        <3>2. CASE t # s BY <1>1, <1>6, <1>10, <3>2 DEF StopsItsOwn
        <3>. QED BY <3>1, <3>2
    <2>6. StartsAlone'
        <3>. SUFFICES ASSUME NEW t \in RpcStarts, rpcStart'[t].at = "spawning"
                      PROVE  /\ rpcStart'[t].name \in DOMAIN rpcTable'
                             /\ \A u \in RpcStarts \ {t} : rpcStart'[u].name = rpcStart'[t].name /\ u \notin crowded' =>
                                   ~RpcAlive(u)' /\ rpcStart'[u].at # "spawning"
            BY DEF StartsAlone
        <3>1. t # s /\ rpcStart[t].at = "spawning" BY <1>4
        <3>2. \A u \in RpcStarts \ {t} : rpcStart[u].name = rpcStart[t].name /\ u \notin crowded =>
                  ~RpcAlive(u) /\ rpcStart[u].at # "spawning"
            BY <1>1, <3>1 DEF StartsAlone
        <3>3. rpcStart[t].name \in DOMAIN rpcTable BY <1>1, <3>1 DEF StartsAlone
        <3>4. s \notin crowded => rpcStart[s].name # rpcStart[t].name BY <1>11, <3>1, <3>2
        <3>. QED BY <1>2, <1>4, <1>6, <1>10, <3>1, <3>2, <3>3, <3>4
    <2>7. NotYetThere' BY <1>1, <1>4, <1>5, <1>10 DEF NotYetThere
    <2>. QED BY <1>9, <2>3, <2>4, <2>5, <2>6, <2>7 DEF RpcInv
<1>12. CASE rpcStart[s].at = "adrift"
    <2>1. s \in crowded /\ rpcStart[s].at # "spawning" /\ UNCHANGED <<rpcHandle, crowded>> BY <1>1, <1>2, <1>12 DEF NotYetThere
    <2>2. \A t \in RpcStarts : t \notin crowded => t # s BY <2>1
    <2>3. RpcWithinReach' BY <1>1, <1>2, <1>4, <1>6, <2>1, <2>2 DEF RpcWithinReach
    <2>4. HandlesFit'
        <3>1. ASSUME NEW m \in RpcNames, rpcHandle[m] # NoStart
              PROVE  rpcStart'[rpcHandle[m]].name = m /\ rpcProc'[rpcHandle[m]] # "none"
            <4>1. rpcHandle[m] \in RpcStarts BY <1>1, <3>1 DEF RpcTypeOK
            <4>2. rpcStart[rpcHandle[m]].name = m /\ rpcProc[rpcHandle[m]] # "none" BY <1>1, <3>1 DEF HandlesFit
            <4>. QED BY <1>4, <1>5, <4>1, <4>2
        <3>. QED BY <1>1, <1>2, <1>5, <1>8, <2>1, <3>1 DEF HandlesFit, RpcTypeOK
    <2>5. StopsItsOwn' BY <1>1, <1>2, <1>4, <1>6, <2>1, <2>2 DEF StopsItsOwn, RpcTypeOK
    <2>6. StartsAlone' BY <1>1, <1>2, <1>4, <1>6, <2>1, <2>2 DEF StartsAlone
    <2>7. NotYetThere' BY <1>1, <1>4, <1>5, <2>1 DEF NotYetThere
    <2>. QED BY <1>9, <2>3, <2>4, <2>5, <2>6, <2>7 DEF RpcInv
<1>. QED BY <1>2, <1>11, <1>12

\* A step that takes no handle and no place, and gives no life.
LEMMA OthersSound ==
    ASSUME RpcInv,
           UNCHANGED <<rpcTable, rpcStopping, crowded>>, moved' \in BOOLEAN,
           rpcSettings' \in Lines, external' \subseteq RpcNames,
           rpcHandle' \in [RpcNames -> RpcStarts \union {NoStart}],
           \A n \in RpcNames : rpcHandle'[n] = rpcHandle[n] \/ rpcHandle'[n] = NoStart,
           rpcStart' \in [RpcStarts -> RpcStart],
           \A t \in RpcStarts : /\ rpcStart'[t].name = rpcStart[t].name
                                /\ rpcStart'[t].at = rpcStart[t].at \/ rpcStart'[t].at = "over",
           rpcProc' \in [RpcStarts -> {"none", "loading", "open", "dead"}],
           \A t \in RpcStarts : /\ RpcAlive(t)' => RpcAlive(t)
                                /\ rpcProc'[t] = "none" <=> rpcProc[t] = "none"
                                /\ RpcAlive(t)' /\ t \notin crowded => rpcHandle'[rpcStart[t].name] = t
    PROVE  RpcInv'
<1>1. RpcTypeOK /\ RpcWithinReach /\ NotYetThere /\ HandlesFit /\ StartsAlone /\ StopsItsOwn BY DEF RpcInv
<1>2. RpcTypeOK' BY <1>1 DEF RpcTypeOK
<1>3. RpcWithinReach' BY <1>1 DEF RpcWithinReach
<1>4. NotYetThere' BY <1>1 DEF NotYetThere
<1>5. HandlesFit'
    <2>1. ASSUME NEW m \in RpcNames, rpcHandle'[m] # NoStart
          PROVE  rpcStart'[rpcHandle'[m]].name = m /\ rpcProc'[rpcHandle'[m]] # "none"
        <3>1. rpcHandle'[m] = rpcHandle[m] /\ rpcHandle[m] \in RpcStarts BY <1>1, <2>1 DEF RpcTypeOK
        <3>2. rpcStart[rpcHandle[m]].name = m /\ rpcProc[rpcHandle[m]] # "none" BY <1>1, <2>1, <3>1 DEF HandlesFit
        <3>. QED BY <3>1, <3>2
    <2>. QED BY <1>1, <2>1 DEF HandlesFit, RpcTypeOK
<1>6. StartsAlone' BY <1>1 DEF StartsAlone
<1>7. StopsItsOwn' BY <1>1 DEF StopsItsOwn, RpcTypeOK
<1>. QED BY <1>2, <1>3, <1>4, <1>5, <1>6, <1>7 DEF RpcInv

LEMMA FailsSound == ASSUME RpcInv, NEW s \in RpcStarts, RpcSpawnFails(s) PROVE RpcInv'
<1>. DEFINE n == rpcStart[s].name
<1>1. RpcTypeOK /\ RpcWithinReach /\ StartsAlone BY DEF RpcInv
<1>2. /\ rpcStart[s].at \in {"spawning", "adrift"}
      /\ rpcStart' = [rpcStart EXCEPT ![s].at = "over"]
      /\ rpcStart[s].at = "spawning" => rpcHandle' = [rpcHandle EXCEPT ![n] = NoStart]
      /\ rpcStart[s].at # "spawning" => rpcHandle' = rpcHandle
      /\ UNCHANGED <<rpcSettings, rpcTable, rpcProc, rpcStopping, external, crowded, moved>>
    BY DEF RpcSpawnFails
<1>3. \A t \in RpcStarts : RpcAlive(t)' <=> RpcAlive(t) BY <1>2 DEF RpcAlive
<1>4. /\ rpcStart' \in [RpcStarts -> RpcStart]
      /\ \A t \in RpcStarts : /\ rpcStart'[t].name = rpcStart[t].name
                              /\ rpcStart'[t].at = rpcStart[t].at \/ rpcStart'[t].at = "over"
    BY <1>1, <1>2 DEF RpcTypeOK, RpcStart
<1>5. /\ rpcHandle' \in [RpcNames -> RpcStarts \union {NoStart}]
      /\ \A m \in RpcNames : rpcHandle'[m] = IF rpcStart[s].at = "spawning" /\ m = n THEN NoStart ELSE rpcHandle[m]
    BY <1>1, <1>2 DEF RpcTypeOK
<1>6. ASSUME NEW t \in RpcStarts, RpcAlive(t), t \notin crowded PROVE rpcHandle'[rpcStart[t].name] = t
    <2>1. rpcStart[t].name \in RpcNames /\ rpcHandle[rpcStart[t].name] = t
        BY <1>1, <1>6 DEF RpcTypeOK, RpcStart, RpcWithinReach
    <2>2. t # s BY <1>2, <1>6 DEF RpcInv, NotYetThere, RpcAlive
    <2>3. rpcStart[s].at = "spawning" => rpcStart[t].name # n BY <1>1, <1>6, <2>2 DEF StartsAlone
    <2>. QED BY <1>5, <2>1, <2>3
<1>7. rpcSettings \in Lines /\ moved \in BOOLEAN /\ external \subseteq RpcNames /\ rpcProc \in [RpcStarts -> {"none", "loading", "open", "dead"}]
    BY <1>1 DEF RpcTypeOK
<1>. QED BY <1>2, <1>3, <1>4, <1>5, <1>6, <1>7, OthersSound

\* A process that opens its port or ends.
LEMMA ProcessesSound == ASSUME RpcInv, NEW s \in RpcStarts, Opens(s) \/ RpcDies(s) PROVE RpcInv'
<1>1. RpcTypeOK /\ RpcWithinReach BY DEF RpcInv
<1>2. /\ RpcAlive(s) /\ UNCHANGED <<rpcSettings, rpcTable, rpcHandle, rpcStart, rpcStopping, external, crowded, moved>>
      /\ \E is \in {"open", "dead"} : rpcProc' = [rpcProc EXCEPT ![s] = is]
    BY DEF Opens, RpcDies, RpcAlive
<1>3. /\ rpcProc' \in [RpcStarts -> {"none", "loading", "open", "dead"}]
      /\ \A t \in RpcStarts : /\ RpcAlive(t)' => RpcAlive(t)
                              /\ rpcProc'[t] = "none" <=> rpcProc[t] = "none"
    BY <1>1, <1>2 DEF RpcTypeOK, RpcAlive
<1>4. \A t \in RpcStarts : RpcAlive(t) /\ t \notin crowded => rpcHandle'[rpcStart[t].name] = t
    BY <1>1, <1>2 DEF RpcWithinReach
<1>5. rpcSettings \in Lines /\ moved \in BOOLEAN /\ external \subseteq RpcNames /\ rpcStart \in [RpcStarts -> RpcStart]
      /\ rpcHandle \in [RpcNames -> RpcStarts \union {NoStart}]
    BY <1>1 DEF RpcTypeOK
<1>. QED BY <1>2, <1>3, <1>4, <1>5, OthersSound

\* A stop() forgets the process that ended, and not another one.
LEMMA StopEndsSound == ASSUME RpcInv, NEW s \in RpcStarts, StopRpcEnds(s) PROVE RpcInv'
<1>. DEFINE n == rpcStart[s].name
<1>1. RpcTypeOK /\ RpcWithinReach /\ NotYetThere /\ HandlesFit /\ StartsAlone /\ StopsItsOwn BY DEF RpcInv
<1>2. PICK ended \in {s} \union IF RpcAlive(s) THEN {rpcHandle[n]} \ {NoStart} ELSE {} :
          /\ rpcProc' = [rpcProc EXCEPT ![ended] = "dead"]
          /\ s \in rpcStopping /\ rpcHandle' = [rpcHandle EXCEPT ![n] = NoStart]
          /\ rpcStopping' = rpcStopping \ {s}
          /\ UNCHANGED <<rpcSettings, rpcTable, rpcStart, external, crowded, moved>>
    BY DEF StopRpcEnds
<1>3. n \in RpcNames BY <1>1 DEF RpcTypeOK, RpcStart
<1>4. ended \in RpcStarts /\ rpcProc[ended] # "none" BY <1>1, <1>2, <1>3 DEF RpcTypeOK, HandlesFit
<1>5. /\ rpcProc' \in [RpcStarts -> {"none", "loading", "open", "dead"}] /\ rpcProc'[ended] = "dead"
      /\ \A t \in RpcStarts : /\ RpcAlive(t)' => RpcAlive(t) /\ t # ended
                              /\ rpcProc'[t] = "none" <=> rpcProc[t] = "none"
    BY <1>1, <1>2, <1>4 DEF RpcTypeOK, RpcAlive
<1>6. /\ rpcHandle' \in [RpcNames -> RpcStarts \union {NoStart}]
      /\ \A m \in RpcNames : rpcHandle'[m] = IF m = n THEN NoStart ELSE rpcHandle[m]
    BY <1>1, <1>2 DEF RpcTypeOK
<1>7. ASSUME NEW t \in RpcStarts, RpcAlive(t)', t \notin crowded PROVE rpcStart[t].name # n
    <2>1. RpcAlive(t) /\ t # ended BY <1>5, <1>7
    <2>2. SUFFICES ASSUME rpcStart[t].name = n PROVE FALSE OBVIOUS
    <2>3. t = s BY <1>1, <1>2, <1>7, <2>1, <2>2 DEF StopsItsOwn
    <2>4. rpcHandle[n] = t BY <1>1, <1>7, <2>1, <2>2 DEF RpcWithinReach
    <2>. QED BY <1>2, <2>1, <2>3, <2>4
<1>8. RpcTypeOK' BY <1>1, <1>2, <1>5, <1>6 DEF RpcTypeOK
<1>9. RpcWithinReach'
    <2>. SUFFICES ASSUME NEW t \in RpcStarts, RpcAlive(t)', t \notin crowded
                  PROVE  rpcHandle'[rpcStart[t].name] = t /\ rpcStart[t].name \in DOMAIN rpcTable
        BY <1>2 DEF RpcWithinReach
    <2>1. RpcAlive(t) /\ rpcStart[t].name # n /\ rpcStart[t].name \in RpcNames BY <1>1, <1>5, <1>7 DEF RpcTypeOK, RpcStart
    <2>. QED BY <1>1, <1>6, <2>1 DEF RpcWithinReach
<1>10. NotYetThere' BY <1>1, <1>2, <1>5 DEF NotYetThere
<1>11. HandlesFit'
    <2>1. ASSUME NEW m \in RpcNames, rpcHandle'[m] # NoStart
          PROVE  rpcStart[rpcHandle'[m]].name = m /\ rpcProc'[rpcHandle'[m]] # "none"
        <3>1. rpcHandle'[m] = rpcHandle[m] /\ rpcHandle[m] \in RpcStarts BY <1>1, <1>6, <2>1 DEF RpcTypeOK
        <3>2. rpcStart[rpcHandle[m]].name = m /\ rpcProc[rpcHandle[m]] # "none" BY <1>1, <2>1, <3>1 DEF HandlesFit
        <3>. QED BY <1>5, <3>1, <3>2
    <2>. QED BY <1>1, <1>2, <1>5, <2>1 DEF HandlesFit, RpcTypeOK
<1>12. StartsAlone' BY <1>1, <1>2, <1>5 DEF StartsAlone
<1>13. StopsItsOwn' BY <1>1, <1>2, <1>5 DEF StopsItsOwn, RpcTypeOK
<1>. QED BY <1>8, <1>9, <1>10, <1>11, <1>12, <1>13 DEF RpcInv

LEMMA StopRpcSound == ASSUME RpcInv, NEW n \in RpcNames, StopRpc(n) PROVE RpcInv'
<1>1. /\ rpcTable' = Synced /\ UNCHANGED <<rpcSettings, rpcProc, external, moved>>
      /\ rpcStart' = StartsSynced /\ crowded' = crowded \union Cast
      /\ rpcHandle' = IF Owned(n) THEN HandlesSynced ELSE [HandlesSynced EXCEPT ![n] = NoStart]
      /\ rpcStopping' = {s \in rpcStopping : rpcStart[s].name \notin Dropped}
                            \union IF Owned(n) THEN {rpcHandle[n]} ELSE {}
    BY DEF StopRpc
<1>2. HandlesSynced \in [RpcNames -> RpcStarts \union {NoStart}] BY SyncedStarts
<1>3. /\ rpcHandle' \in [RpcNames -> RpcStarts \union {NoStart}]
      /\ \A m \in RpcNames : \/ rpcHandle'[m] = HandlesSynced[m]
                             \/ rpcHandle'[m] = NoStart /\ ~Owned(m)
    BY <1>1, <1>2
<1>4. \A p \in rpcStopping' : p \in rpcStopping \/ \E m \in RpcNames : Owned(m) /\ p = rpcHandle[m] BY <1>1
<1>. QED BY <1>1, <1>3, <1>4, SyncSound

LEMMA ListsRpcSound == ASSUME RpcInv, ListsRpc PROVE RpcInv'
<1>1. /\ rpcTable' = Synced /\ UNCHANGED <<rpcSettings, rpcProc, external, moved>>
      /\ rpcStart' = StartsSynced /\ crowded' = crowded \union Cast
      /\ rpcHandle' = HandlesSynced /\ rpcStopping' \subseteq rpcStopping
    BY DEF ListsRpc, SyncsTable
<1>. QED BY <1>1, SyncedStarts, SyncSound

\* Only the synchronized table takes the place of the table, and only the user
\* changes the settings.
LEMMA TableStep ==
    RpcNext => \/ \E settings \in Lines : EditsSettings(settings)
               \/ UNCHANGED <<rpcSettings, moved>> /\ rpcTable' \in {Synced, rpcTable}
BY DEF RpcNext, StartRpc, Spawned, RpcSpawnFails, Opens, RpcDies, StartRpcEnds, StopRpcEnds, StopRpc,
       ExternalChanges, ListsRpc, SyncsTable

LEMMA OrderStep == ASSUME RpcInv, RpcOrderIsConfigured, [RpcNext]_rpcVars PROVE RpcOrderIsConfigured'
<1>1. rpcSettings \in Lines /\ rpcTable \in Lines BY DEF RpcInv, RpcTypeOK
<1>2. CASE UNCHANGED <<rpcSettings, moved>> /\ rpcTable' \in {Synced, rpcTable}
    BY <1>1, <1>2, SyncedInOrder DEF RpcOrderIsConfigured
<1>3. ASSUME NEW settings \in Lines, EditsSettings(settings) PROVE RpcOrderIsConfigured'
    BY <1>3 DEF EditsSettings, RpcOrderIsConfigured
<1>. QED BY <1>2, <1>3, TableStep DEF rpcVars

LEMMA RpcStep == RpcInv /\ [RpcNext]_rpcVars => RpcInv'
<1>. SUFFICES ASSUME RpcInv, [RpcNext]_rpcVars PROVE RpcInv' OBVIOUS
<1>1. ASSUME NEW s \in RpcStarts, NEW n \in RpcNames, StartRpc(s, n) PROVE RpcInv' BY <1>1, StartRpcSound
<1>2. ASSUME NEW s \in RpcStarts,
             Spawned(s) \/ RpcSpawnFails(s) \/ Opens(s) \/ RpcDies(s) \/ StopRpcEnds(s)
      PROVE  RpcInv'
    BY <1>2, SpawnedSound, FailsSound, ProcessesSound, StopEndsSound
<1>3. /\ RpcTypeOK
      /\ \A s \in RpcStarts : RpcAlive(s) /\ s \notin crowded => rpcHandle[rpcStart[s].name] = s
    BY DEF RpcInv, RpcWithinReach
<1>4. ASSUME NEW s \in RpcStarts, StartRpcEnds(s) PROVE RpcInv'
    <2>1. /\ rpcStart' = [rpcStart EXCEPT ![s].at = "over"]
          /\ UNCHANGED <<rpcSettings, rpcTable, rpcHandle, rpcProc, rpcStopping, external, crowded, moved>>
        BY <1>4 DEF StartRpcEnds
    <2>2. /\ rpcStart' \in [RpcStarts -> RpcStart]
          /\ \A t \in RpcStarts : /\ rpcStart'[t].name = rpcStart[t].name
                                  /\ rpcStart'[t].at = rpcStart[t].at \/ rpcStart'[t].at = "over"
        BY <1>3, <2>1 DEF RpcTypeOK, RpcStart
    <2>3. \A t \in RpcStarts : RpcAlive(t)' <=> RpcAlive(t) BY <2>1 DEF RpcAlive
    <2>. QED BY <1>3, <2>1, <2>2, <2>3, OthersSound DEF RpcTypeOK
<1>5. ASSUME rpcSettings' \in Lines, external' \subseteq RpcNames, moved' \in BOOLEAN,
             UNCHANGED <<rpcTable, rpcHandle, rpcStart, rpcProc, rpcStopping, crowded>>
      PROVE  RpcInv'
    <2>1. \A t \in RpcStarts : RpcAlive(t)' <=> RpcAlive(t) BY <1>5 DEF RpcAlive
    <2>. QED BY <1>3, <1>5, <2>1, OthersSound DEF RpcTypeOK
<1>6. ASSUME NEW n \in RpcNames, StopRpc(n) \/ ExternalChanges(n) PROVE RpcInv'
    <2>1. CASE StopRpc(n) BY <2>1, StopRpcSound
    <2>2. CASE ExternalChanges(n) BY <1>3, <1>5, <2>2 DEF ExternalChanges, RpcTypeOK
    <2>. QED BY <1>6, <2>1, <2>2
<1>7. ASSUME NEW settings \in Lines, EditsSettings(settings) PROVE RpcInv'
    BY <1>3, <1>5, <1>7 DEF EditsSettings, RpcTypeOK
<1>8. CASE ListsRpc BY <1>8, ListsRpcSound
<1>9. CASE UNCHANGED rpcVars BY <1>3, <1>5, <1>9 DEF rpcVars, RpcTypeOK
<1>. QED BY <1>1, <1>2, <1>4, <1>6, <1>7, <1>8, <1>9 DEF RpcNext

\* The processes that were started alone are reached by stop(), and the table
\* of the RPC devices is in the configured order until the user puts a server
\* before one it has, however the settings, the starts, the stops, the
\* processes and foreign servers follow each other.
THEOREM ServersAreKept == RpcSpec => []RpcIsKept
<1>1. RpcInit => RpcOrderIsConfigured BY DEF RpcInit, NoLine, RpcOrderIsConfigured, InOrder
<1>2. RpcInv /\ RpcOrderIsConfigured => RpcIsKept BY DEF RpcInv, RpcTypeOK, RpcIsKept
<1>. QED BY <1>1, <1>2, RpcInitSound, RpcStep, OrderStep, PTL DEF RpcSpec

-----------------------------------------------------------------------------
(* The routers: the inductive invariant *)

\* Which handles know a process, by the place the backend is in.
HeldSound(p) ==
    /\ held[p] \in {"ours", "adopted"} => Up(p)
    /\ phase \in {"down", "seeded", "written"} => held[p] = "none"
    /\ phase = "adopting" => held[p] \in {"none", "adopted"}

\* A process that has read another file than there is was there before the
\* file, and is shown to be stale unless the file came in the middle of its start.
ReadSound(p) ==
    /\ llama[p].read # NotRead => p \in WithPath
    /\ llama[p].read \notin {NotRead, iniFile[p]} =>
          /\ Up(p) => llama[p].newer
          /\ held[p] = "starting" /\ Up(p) => p \in met
          /\ held[p] \in {"ours", "adopted"} => p \in met \/ p \in stale

\* A preset that was pointed at a directory: the boot has it before it, or up.
BroughtUp(p) ==
    /\ pointed => modelsDir[p] # "factory"
    /\ phase = "starting" /\ p \in Registered \ excused /\ modelsDir[p] # "factory" =>
           p \in todo \/ (Up(p) /\ ~NotRunning(p))
    /\ phase = "serving" /\ p \in Registered \ excused /\ modelsDir[p] # "factory" =>
           Up(p) /\ ~NotRunning(p)

LifeInv ==
    /\ LifeTypeOK
    /\ pointed => root = "chosen"
    /\ \A p \in RouterPresets : HeldSound(p) /\ ReadSound(p) /\ BroughtUp(p)

-----------------------------------------------------------------------------
(* The routers: the records of processes *)

\* No process is a process, and 0 an edition.
LEMMA NoLlamaType ==
    /\ NoLlama \in LlamaProcess
    /\ NoLlama.life = "none" /\ NoLlama.read = NotRead /\ NotRead \notin Editions
    /\ 0 \in Editions /\ 1 \in Editions
<1>1. MaxEdition \in Nat \ {0} BY LifecycleAssumption
<1>2. NotRead \notin Editions /\ 0 \in Editions /\ 1 \in Editions BY <1>1 DEF NotRead, Editions
<1>3. NoLlama \in LlamaProcess BY DEF NoLlama, LlamaProcess
<1>. QED BY <1>2, <1>3 DEF NoLlama

\* A file that is written makes a process older than its file, and nothing else.
LEMMA OlderThanItsFile ==
    ASSUME NEW l \in LlamaProcess
    PROVE  /\ [l EXCEPT !.newer = TRUE] \in LlamaProcess
           /\ [l EXCEPT !.newer = TRUE].life = l.life
           /\ [l EXCEPT !.newer = TRUE].read = l.read
           /\ [l EXCEPT !.newer = TRUE].newer = TRUE
BY DEF LlamaProcess

\* Reading the file changes what was read.
LEMMA HasRead ==
    ASSUME NEW l \in LlamaProcess, NEW e \in Editions
    PROVE  /\ [l EXCEPT !.read = e] \in LlamaProcess
           /\ [l EXCEPT !.read = e].life = l.life
           /\ [l EXCEPT !.read = e].read = e
           /\ [l EXCEPT !.read = e].newer = l.newer
BY DEF LlamaProcess

\* A process that loses its parent is nobody's child, and nothing else.
LEMMA NobodysChild ==
    ASSUME NEW l \in LlamaProcess
    PROVE  /\ [l EXCEPT !.child = FALSE] \in LlamaProcess
           /\ [l EXCEPT !.child = FALSE].life = l.life
           /\ [l EXCEPT !.child = FALSE].read = l.read
           /\ [l EXCEPT !.child = FALSE].newer = l.newer
BY DEF LlamaProcess

\* A new process has read nothing, and a defunct one is not up.
LEMMA NewAndDefunct ==
    /\ [NoLlama EXCEPT !.life = "up", !.child = TRUE] \in LlamaProcess
    /\ [NoLlama EXCEPT !.life = "up", !.child = TRUE].life = "up"
    /\ [NoLlama EXCEPT !.life = "up", !.child = TRUE].read = NotRead
    /\ [NoLlama EXCEPT !.life = "defunct"] \in LlamaProcess
    /\ [NoLlama EXCEPT !.life = "defunct"].life = "defunct"
    /\ [NoLlama EXCEPT !.life = "defunct"].read = NotRead
BY DEF NoLlama, LlamaProcess


-----------------------------------------------------------------------------
(* The routers: files that are written *)

\* Whatever is written, no process is up that was not, and one that has read
\* what was there before is told from one that was started afterwards.
LEMMA WritingIsSound ==
    ASSUME LifeInv, NEW S \in SUBSET RouterPresets, NEW e \in Editions,
           WritesIni(S, e), held' = held
    PROVE  /\ iniFile' \in [RouterPresets -> Editions]
           /\ llama' \in [RouterPresets -> LlamaProcess]
           /\ stale' \subseteq RouterPresets /\ met' \subseteq RouterPresets
           /\ \A p \in RouterPresets : ReadSound(p)' /\ llama'[p].life = llama[p].life
<1>. DEFINE W == {IniOf(x) : x \in S}
            R == W \intersect WithPath
<1>0. /\ iniFile' = [p \in RouterPresets |-> IF p \in W THEN e ELSE iniFile[p]]
      /\ llama' = [p \in RouterPresets |-> IF p \in R /\ Up(p) THEN [llama[p] EXCEPT !.newer = TRUE] ELSE llama[p]]
      /\ stale' = stale \union {p \in R : held[p] \in {"ours", "adopted"}}
      /\ met' = met \union {p \in R : held[p] = "starting" /\ Up(p)}
    BY DEF WritesIni
<1>r. R \subseteq RouterPresets BY LifecycleAssumption
<1>. HIDE DEF W
<1>1. /\ iniFile \in [RouterPresets -> Editions] /\ llama \in [RouterPresets -> LlamaProcess]
      /\ stale \subseteq RouterPresets /\ met \subseteq RouterPresets
    BY DEF LifeInv, LifeTypeOK
<1>2. iniFile' \in [RouterPresets -> Editions] BY <1>0, <1>1
<1>3. stale' \subseteq RouterPresets /\ met' \subseteq RouterPresets BY <1>0, <1>r, <1>1
<1>4. ASSUME NEW p \in RouterPresets
      PROVE  /\ llama'[p] \in LlamaProcess
             /\ llama'[p].life = llama[p].life /\ llama'[p].read = llama[p].read
             /\ p \in R /\ Up(p) => llama'[p].newer
             /\ llama[p].newer => llama'[p].newer
    <2>1. llama[p] \in LlamaProcess BY <1>1
    <2>2. llama'[p] = IF p \in R /\ Up(p) THEN [llama[p] EXCEPT !.newer = TRUE] ELSE llama[p]
        BY <1>0
    <2>. QED BY <2>1, <2>2, OlderThanItsFile
<1>5. llama' \in [RouterPresets -> LlamaProcess] BY <1>0, <1>4
<1>6. ASSUME NEW p \in RouterPresets PROVE ReadSound(p)'
    <2>1. ReadSound(p) BY DEF LifeInv
    <2>2. iniFile'[p] = IF p \in W THEN e ELSE iniFile[p] BY <1>0
    <2>3. CASE p \in R BY <1>0, <1>4, <2>1, <2>3 DEF ReadSound, Up
    <2>4. CASE p \notin R BY <1>0, <1>4, <2>1, <2>2, <2>4 DEF ReadSound, Up
    <2>. QED BY <2>3, <2>4
<1>. QED BY <1>2, <1>3, <1>4, <1>5, <1>6

-----------------------------------------------------------------------------
(* The routers: steps of the boot *)

LEMMA SeedsSound == ASSUME LifeInv, Seeds PROVE LifeInv'
<1>. USE DEF Seeds
<1>1. LifeTypeOK /\ Seed \in RouterPresets BY LifecycleAssumption DEF LifeInv
<1>2. LifeTypeOK' BY <1>1 DEF LifeTypeOK, Phases
<1>3. (pointed => root = "chosen")' BY DEF LifeInv
<1>4. ASSUME NEW p \in RouterPresets PROVE (HeldSound(p) /\ ReadSound(p) /\ BroughtUp(p))'
    <2>1. HeldSound(p) /\ ReadSound(p) /\ BroughtUp(p) /\ (pointed => root = "chosen") BY DEF LifeInv
    <2>2. modelsDir'[p] = IF p = Seed /\ modelsDir[p] = "absent" THEN root ELSE modelsDir[p]
        BY <1>1 DEF LifeTypeOK
    <2>3. root # "absent" BY <1>1 DEF LifeTypeOK
    <2>4. ReadSound(p)' BY <2>1 DEF ReadSound, Up
    <2>. QED BY <2>1, <2>2, <2>3, <2>4 DEF HeldSound, BroughtUp, Up, NotRunning, Registered
<1>. QED BY <1>2, <1>3, <1>4 DEF LifeInv

LEMMA BootWritesIniSound == ASSUME LifeInv, BootWritesIni PROVE LifeInv'
<1>1. PICK q \in Registered : WritesIni({q}, edition) BY DEF BootWritesIni
<1>2. LifeTypeOK /\ {q} \in SUBSET RouterPresets /\ edition \in Editions BY DEF LifeInv, LifeTypeOK, Registered
<1>3. held' = held BY DEF BootWritesIni
<1>4. /\ iniFile' \in [RouterPresets -> Editions]
      /\ llama' \in [RouterPresets -> LlamaProcess]
      /\ stale' \subseteq RouterPresets /\ met' \subseteq RouterPresets
      /\ \A p \in RouterPresets : ReadSound(p)' /\ llama'[p].life = llama[p].life
    BY <1>1, <1>2, <1>3, WritingIsSound
<1>5. LifeTypeOK' BY <1>2, <1>4 DEF LifeTypeOK, BootWritesIni, Phases
<1>6. ASSUME NEW p \in RouterPresets PROVE (HeldSound(p) /\ BroughtUp(p))'
    <2>1. HeldSound(p) /\ BroughtUp(p) BY DEF LifeInv
    <2>. QED BY <1>4, <2>1 DEF BootWritesIni, HeldSound, BroughtUp, Up, NotRunning, Registered
<1>. QED BY <1>4, <1>5, <1>6 DEF LifeInv, BootWritesIni

LEMMA ScansSound == ASSUME LifeInv, Scans PROVE LifeInv'
<1>1. LifeTypeOK BY DEF LifeInv
<1>2. ASSUME NEW p \in RouterPresets
      PROVE  /\ llama[p] \in LlamaProcess
             /\ llama'[p] = IF llama[p].life = "defunct" THEN NoLlama ELSE llama[p]
    BY <1>1 DEF Scans, LifeTypeOK
<1>3. llama' \in [RouterPresets -> LlamaProcess] BY <1>2, NoLlamaType DEF Scans
<1>4. LifeTypeOK' BY <1>1, <1>3 DEF LifeTypeOK, Scans, Phases, Registered
<1>5. ASSUME NEW p \in RouterPresets PROVE (HeldSound(p) /\ ReadSound(p) /\ BroughtUp(p))'
    <2>1. HeldSound(p) /\ ReadSound(p) /\ BroughtUp(p) BY DEF LifeInv
    <2>2. Up(p)' <=> Up(p) BY <1>2, NoLlamaType DEF Up
    <2>3. ReadSound(p)' BY <1>2, <2>1, <2>2, NoLlamaType DEF Scans, ReadSound, HeldSound
    <2>. QED BY <2>1, <2>2, <2>3 DEF Scans, HeldSound, BroughtUp, NotRunning, Registered
<1>. QED BY <1>4, <1>5 DEF LifeInv, Scans

LEMMA AdoptsOneSound == ASSUME LifeInv, NEW q \in RouterPresets, AdoptsOne(q) PROVE LifeInv'
<1>1. LifeTypeOK BY DEF LifeInv
<1>2. LifeTypeOK' BY <1>1 DEF LifeTypeOK, AdoptsOne
<1>3. ASSUME NEW p \in RouterPresets PROVE (HeldSound(p) /\ ReadSound(p) /\ BroughtUp(p))'
    <2>1. HeldSound(p) /\ ReadSound(p) /\ BroughtUp(p) BY DEF LifeInv
    <2>2. held'[p] = IF p = q /\ Up(q) THEN "adopted" ELSE held[p] BY <1>1 DEF AdoptsOne, LifeTypeOK
    <2>3. ReadSound(p)' BY <2>1, <2>2 DEF AdoptsOne, ReadSound, StaleWhenAdopted, Up
    <2>4. HeldSound(p)' BY <2>1, <2>2 DEF AdoptsOne, HeldSound, Up, Registered
    <2>5. BroughtUp(p)' BY <2>1, <2>2 DEF AdoptsOne, BroughtUp, Up, NotRunning, Registered
    <2>. QED BY <2>3, <2>4, <2>5
<1>. QED BY <1>2, <1>3 DEF LifeInv, AdoptsOne

LEMMA FindsIdleSound == ASSUME LifeInv, FindsIdle PROVE LifeInv'
<1>1. LifeTypeOK BY DEF LifeInv
<1>2. LifeTypeOK' BY <1>1 DEF LifeTypeOK, FindsIdle, Phases, Registered
<1>3. ASSUME NEW p \in RouterPresets PROVE (HeldSound(p) /\ ReadSound(p) /\ BroughtUp(p))'
    <2>1. HeldSound(p) /\ ReadSound(p) /\ BroughtUp(p) BY DEF LifeInv
    <2>. QED BY <2>1 DEF FindsIdle, HeldSound, ReadSound, BroughtUp, Up, NotRunning, Registered
<1>. QED BY <1>2, <1>3 DEF LifeInv, FindsIdle

LEMMA ServesSound == ASSUME LifeInv, Serves PROVE LifeInv'
<1>1. LifeTypeOK' BY DEF LifeInv, LifeTypeOK, Serves, Phases
<1>2. ASSUME NEW p \in RouterPresets PROVE (HeldSound(p) /\ ReadSound(p) /\ BroughtUp(p))'
    <2>1. HeldSound(p) /\ ReadSound(p) /\ BroughtUp(p) BY DEF LifeInv
    <2>. QED BY <2>1 DEF Serves, HeldSound, ReadSound, BroughtUp, Up, NotRunning, Registered
<1>. QED BY <1>1, <1>2 DEF LifeInv, Serves

-----------------------------------------------------------------------------
(* The routers: starts, ends and processes *)

LEMMA StartsOneSound == ASSUME LifeInv, NEW q \in RouterPresets, StartsOne(q) PROVE LifeInv'
<1>1. LifeTypeOK BY DEF LifeInv
<1>2. LifeTypeOK' BY <1>1 DEF LifeTypeOK, StartsOne
<1>3. ASSUME NEW p \in RouterPresets PROVE (HeldSound(p) /\ ReadSound(p) /\ BroughtUp(p))'
    <2>1. HeldSound(p) /\ ReadSound(p) /\ BroughtUp(p) BY DEF LifeInv
    <2>. QED BY <2>1, <1>1 DEF StartsOne, LifeTypeOK, HeldSound, ReadSound, BroughtUp, Up, NotRunning, Registered
<1>. QED BY <1>2, <1>3 DEF LifeInv, StartsOne

LEMMA StartsOneEndsSound == ASSUME LifeInv, NEW q \in RouterPresets, StartsOneEnds(q) PROVE LifeInv'
<1>1. LifeTypeOK BY DEF LifeInv
<1>2. LifeTypeOK' BY <1>1 DEF LifeTypeOK, StartsOneEnds
<1>3. ASSUME NEW p \in RouterPresets PROVE (HeldSound(p) /\ ReadSound(p) /\ BroughtUp(p))'
    <2>1. HeldSound(p) /\ ReadSound(p) /\ BroughtUp(p) BY DEF LifeInv
    <2>. QED BY <2>1, <1>1 DEF StartsOneEnds, LifeTypeOK, HeldSound, ReadSound, BroughtUp, Up, NotRunning, Registered
<1>. QED BY <1>2, <1>3 DEF LifeInv, StartsOneEnds

LEMMA StartsOneFailsSound == ASSUME LifeInv, NEW q \in RouterPresets, StartsOneFails(q) PROVE LifeInv'
<1>1. LifeTypeOK BY DEF LifeInv
<1>2. LifeTypeOK' BY <1>1 DEF LifeTypeOK, StartsOneFails
<1>3. ASSUME NEW p \in RouterPresets PROVE (HeldSound(p) /\ ReadSound(p) /\ BroughtUp(p))'
    <2>1. HeldSound(p) /\ ReadSound(p) /\ BroughtUp(p) BY DEF LifeInv
    <2>. QED BY <2>1, <1>1 DEF StartsOneFails, LifeTypeOK, HeldSound, ReadSound, BroughtUp, Up, NotRunning, Registered
<1>. QED BY <1>2, <1>3 DEF LifeInv, StartsOneFails

LEMMA SpawnsOneSound == ASSUME LifeInv, NEW q \in RouterPresets, SpawnsOne(q) PROVE LifeInv'
<1>1. LifeTypeOK BY DEF LifeInv
<1>. DEFINE l == [NoLlama EXCEPT !.life = "up", !.child = TRUE]
<1>2. l \in LlamaProcess /\ l.life = "up" /\ l.read = NotRead BY NewAndDefunct
<1>3. llama' = [llama EXCEPT ![q] = l] BY DEF SpawnsOne
<1>. HIDE DEF l
<1>4. LifeTypeOK' BY <1>1, <1>2, <1>3 DEF LifeTypeOK, SpawnsOne
<1>5. ASSUME NEW p \in RouterPresets PROVE (HeldSound(p) /\ ReadSound(p) /\ BroughtUp(p))'
    <2>1. HeldSound(p) /\ ReadSound(p) /\ BroughtUp(p) BY DEF LifeInv
    <2>2. llama'[p] = IF p = q THEN l ELSE llama[p] BY <1>1, <1>3 DEF LifeTypeOK
    <2>. QED BY <2>1, <2>2, <1>1, <1>2 DEF SpawnsOne, LifeTypeOK, HeldSound, ReadSound, BroughtUp, Up, NotRunning, Registered
<1>. QED BY <1>4, <1>5 DEF LifeInv, SpawnsOne

LEMMA ReadsIniSound == ASSUME LifeInv, NEW q \in RouterPresets, ReadsIni(q) PROVE LifeInv'
<1>1. LifeTypeOK BY DEF LifeInv
<1>. DEFINE l == [llama[q] EXCEPT !.read = iniFile[q]]
<1>2. /\ l \in LlamaProcess /\ l.life = llama[q].life
      /\ l.read = iniFile[q] /\ l.newer = llama[q].newer
    BY <1>1, HasRead DEF LifeTypeOK
<1>3. llama' = [llama EXCEPT ![q] = l] BY DEF ReadsIni
<1>. HIDE DEF l
<1>4. LifeTypeOK' BY <1>1, <1>2, <1>3 DEF LifeTypeOK, ReadsIni
<1>5. ASSUME NEW p \in RouterPresets PROVE (HeldSound(p) /\ ReadSound(p) /\ BroughtUp(p))'
    <2>1. HeldSound(p) /\ ReadSound(p) /\ BroughtUp(p) BY DEF LifeInv
    <2>2. llama'[p] = IF p = q THEN l ELSE llama[p] BY <1>1, <1>3 DEF LifeTypeOK
    <2>. QED BY <2>1, <2>2, <1>1, <1>2 DEF ReadsIni, LifeTypeOK, HeldSound, ReadSound, BroughtUp, Up, NotRunning, Registered
<1>. QED BY <1>4, <1>5 DEF LifeInv, ReadsIni

LEMMA LlamaGoneSound ==
    ASSUME LifeInv, NEW q \in RouterPresets, NEW after \in {"none", "starting", "crashed"}, LlamaGone(q, after),
           after = "starting" => phase \in {"starting", "serving", "stopping"},
           after = "crashed" => phase \in {"starting", "serving", "stopping"}
    PROVE  LifeInv'
<1>1. LifeTypeOK BY DEF LifeInv
<1>. DEFINE l == IF held[q] = "none" /\ llama[q].child THEN [NoLlama EXCEPT !.life = "defunct"] ELSE NoLlama
<1>2. l \in LlamaProcess /\ l.life # "up" /\ l.read = NotRead BY NewAndDefunct, NoLlamaType
<1>3. llama' = [llama EXCEPT ![q] = l] BY DEF LlamaGone
<1>. HIDE DEF l
<1>4. LifeTypeOK' BY <1>1, <1>2, <1>3 DEF LifeTypeOK, LlamaGone
<1>5. ASSUME NEW p \in RouterPresets PROVE (HeldSound(p) /\ ReadSound(p) /\ BroughtUp(p))'
    <2>1. HeldSound(p) /\ ReadSound(p) /\ BroughtUp(p) BY DEF LifeInv
    <2>2. llama'[p] = IF p = q THEN l ELSE llama[p] BY <1>1, <1>3 DEF LifeTypeOK
    <2>3. held'[p] = IF p = q THEN after ELSE held[p] BY <1>1 DEF LlamaGone, LifeTypeOK
    <2>4. HeldSound(p)' BY <1>1, <1>2, <2>1, <2>2, <2>3 DEF LlamaGone, LifeTypeOK, HeldSound, Up, Registered
    <2>5. ReadSound(p)' BY <1>2, <2>1, <2>2, <2>3 DEF LlamaGone, ReadSound, Up
    <2>6. BroughtUp(p)' BY <1>2, <2>1, <2>2, <2>3 DEF LlamaGone, BroughtUp, Up, NotRunning, Registered
    <2>. QED BY <2>4, <2>5, <2>6
<1>. QED BY <1>4, <1>5 DEF LifeInv, LlamaGone

LEMMA LlamaEndsSound == ASSUME LifeInv, NEW q \in RouterPresets, LlamaEnds(q) PROVE LifeInv'
<1>1. PICK after \in {"none", "starting", "crashed"} :
          /\ after = "starting" <=> held[q] = "starting"
          /\ after = "crashed" => held[q] = "ours"
          /\ LlamaGone(q, after)
    BY DEF LlamaEnds
<1>2. HeldSound(q) /\ phase \in Phases BY DEF LifeInv, LifeTypeOK
<1>3. held[q] \in {"starting", "ours"} => phase \in {"starting", "serving", "stopping"}
    BY <1>2 DEF HeldSound, Phases
<1>. QED BY <1>1, <1>3, LlamaGoneSound

LEMMA UserStopsSound == ASSUME LifeInv, NEW q \in RouterPresets, UserStops(q) PROVE LifeInv'
<1>1. CASE held[q] \in {"ours", "adopted"} BY <1>1, LlamaGoneSound DEF UserStops
<1>2. CASE held[q] \notin {"ours", "adopted"}
    <2>1. held[q] = "crashed" /\ held' = [held EXCEPT ![q] = "none"]
          /\ UNCHANGED <<phase, modelsDir, root, binary, edition, iniFile, llama, todo, pointed, excused, stale, met>>
        BY <1>2 DEF UserStops
    <2>2. LifeTypeOK BY DEF LifeInv
    <2>3. LifeTypeOK' BY <2>1, <2>2 DEF LifeTypeOK
    <2>4. ASSUME NEW p \in RouterPresets PROVE (HeldSound(p) /\ ReadSound(p) /\ BroughtUp(p))'
        <3>1. HeldSound(p) /\ ReadSound(p) /\ BroughtUp(p) BY DEF LifeInv
        <3>. QED BY <2>1, <2>2, <3>1 DEF LifeTypeOK, HeldSound, ReadSound, BroughtUp, Up, NotRunning, Registered
    <2>. QED BY <2>1, <2>3, <2>4 DEF LifeInv
<1>. QED BY <1>1, <1>2

-----------------------------------------------------------------------------
(* The routers: the user *)

\* Presets are saved by a backend that serves: what changes is what this boot
\* need not have brought up.
LEMMA SavingIsSound ==
    ASSUME LifeInv, NEW dirs \in [RouterPresets -> {"absent", "factory", "chosen"}], SavesPresets(dirs),
           excused \subseteq excused', excused' \subseteq RouterPresets, pointed' \in BOOLEAN, pointed' => pointed,
           \A p \in RouterPresets : dirs[p] = "factory" => modelsDir[p] = "factory" \/ ~pointed',
           \A p \in RouterPresets : dirs[p] # modelsDir[p] => p \in excused'
    PROVE  LifeInv'
<1>. DEFINE S == {p \in RouterPresets : dirs[p] # "absent"}
<1>1. LifeTypeOK BY DEF LifeInv
<1>2. edition + 1 \in Editions /\ S \in SUBSET RouterPresets
    BY <1>1, LifecycleAssumption DEF LifeTypeOK, SavesPresets, Editions
<1>3. WritesIni(S, edition + 1) /\ held' = held BY DEF SavesPresets
<1>4. /\ iniFile' \in [RouterPresets -> Editions]
      /\ llama' \in [RouterPresets -> LlamaProcess]
      /\ stale' \subseteq RouterPresets /\ met' \subseteq RouterPresets
      /\ \A p \in RouterPresets : ReadSound(p)' /\ llama'[p].life = llama[p].life
    <2>. HIDE DEF S
    <2>. QED BY <1>2, <1>3, WritingIsSound
<1>5. LifeTypeOK' BY <1>1, <1>2, <1>4 DEF LifeTypeOK, SavesPresets
<1>6. ASSUME NEW p \in RouterPresets PROVE (HeldSound(p) /\ BroughtUp(p))'
    <2>1. HeldSound(p) /\ BroughtUp(p) BY DEF LifeInv
    <2>. QED BY <1>4, <2>1 DEF SavesPresets, HeldSound, BroughtUp, Up, NotRunning, Registered
<1>. QED BY <1>4, <1>5, <1>6 DEF LifeInv, SavesPresets

LEMMA SavesSiblingSound == ASSUME LifeInv, SavesSibling PROVE LifeInv'
<1>1. /\ modelsDir \in [RouterPresets -> {"absent", "factory", "chosen"}]
      /\ excused \subseteq RouterPresets /\ pointed \in BOOLEAN
    BY DEF LifeInv, LifeTypeOK
<1>. QED BY <1>1, SavingIsSound DEF SavesSibling

LEMMA PutsRouterSound == ASSUME LifeInv, NEW q \in RouterPresets, PutsRouter(q) PROVE LifeInv'
<1>1. PICK dir \in {"factory", "chosen"} \ {modelsDir[q]} :
          /\ SavesPresets([modelsDir EXCEPT ![q] = dir])
          /\ pointed' = (pointed /\ dir = "chosen")
          /\ excused' = excused \union {q}
    BY DEF PutsRouter
<1>. DEFINE dirs == [modelsDir EXCEPT ![q] = dir]
<1>2. /\ modelsDir \in [RouterPresets -> {"absent", "factory", "chosen"}]
      /\ excused \subseteq RouterPresets /\ pointed \in BOOLEAN
    BY DEF LifeInv, LifeTypeOK
<1>3. dirs \in [RouterPresets -> {"absent", "factory", "chosen"}] BY <1>2
<1>4. \A p \in RouterPresets : dirs[p] = IF p = q THEN dir ELSE modelsDir[p] BY <1>2
<1>5. SavesPresets(dirs) BY <1>1
<1>. HIDE DEF dirs
<1>6. \A p \in RouterPresets : dirs[p] = "factory" => modelsDir[p] = "factory" \/ ~pointed' BY <1>1, <1>4
<1>7. \A p \in RouterPresets : dirs[p] # modelsDir[p] => p \in excused' BY <1>1, <1>4
<1>. QED BY <1>1, <1>2, <1>3, <1>5, <1>6, <1>7, SavingIsSound

LEMMA DeletesRouterSound == ASSUME LifeInv, NEW q \in RouterPresets, DeletesRouter(q) PROVE LifeInv'
<1>. DEFINE dirs == [modelsDir EXCEPT ![q] = "absent"]
<1>1. /\ modelsDir \in [RouterPresets -> {"absent", "factory", "chosen"}]
      /\ excused \subseteq RouterPresets /\ pointed \in BOOLEAN
    BY DEF LifeInv, LifeTypeOK
<1>2. dirs \in [RouterPresets -> {"absent", "factory", "chosen"}] BY <1>1
<1>3. \A p \in RouterPresets : dirs[p] = IF p = q THEN "absent" ELSE modelsDir[p] BY <1>1
<1>4. SavesPresets(dirs) /\ excused' = excused \union {q} /\ pointed' = pointed BY DEF DeletesRouter
<1>. HIDE DEF dirs
<1>5. \A p \in RouterPresets : dirs[p] = "factory" => modelsDir[p] = "factory" \/ ~pointed' BY <1>3
<1>6. \A p \in RouterPresets : dirs[p] # modelsDir[p] => p \in excused' BY <1>3, <1>4
<1>. QED BY <1>1, <1>2, <1>4, <1>5, <1>6, SavingIsSound

LEMMA FilesChangeSound == ASSUME LifeInv, FilesChange PROVE LifeInv'
<1>1. LifeTypeOK BY DEF LifeInv
<1>2. edition' \in Editions BY <1>1, LifecycleAssumption DEF LifeTypeOK, FilesChange, Editions
<1>3. LifeTypeOK' BY <1>1, <1>2 DEF LifeTypeOK, FilesChange
<1>4. ASSUME NEW p \in RouterPresets PROVE (HeldSound(p) /\ ReadSound(p) /\ BroughtUp(p))'
    <2>1. HeldSound(p) /\ ReadSound(p) /\ BroughtUp(p) BY DEF LifeInv
    <2>. QED BY <2>1 DEF FilesChange, HeldSound, ReadSound, BroughtUp, Up, NotRunning, Registered
<1>. QED BY <1>3, <1>4 DEF LifeInv, FilesChange

LEMMA WizardSetsRootSound == ASSUME LifeInv, WizardSetsRoot PROVE LifeInv'
<1>1. LifeTypeOK BY DEF LifeInv
<1>2. PICK new \in {"factory", "chosen"} :
          root' = new /\ modelsDir' = Repointed(new) /\ pointed' = (new # "factory")
    BY DEF WizardSetsRoot
<1>3. modelsDir' \in [RouterPresets -> {"absent", "factory", "chosen"}] BY <1>1, <1>2 DEF LifeTypeOK, Repointed
<1>4. LifeTypeOK' BY <1>1, <1>2, <1>3 DEF LifeTypeOK, WizardSetsRoot
<1>5. ASSUME NEW p \in RouterPresets PROVE (HeldSound(p) /\ ReadSound(p) /\ BroughtUp(p))'
    <2>1. HeldSound(p) /\ ReadSound(p) /\ BroughtUp(p) BY DEF LifeInv
    <2>2. /\ pointed' => modelsDir'[p] # "factory"
          /\ modelsDir'[p] # modelsDir[p] => p \in excused'
          /\ excused \subseteq excused'
        BY <1>1, <1>2 DEF WizardSetsRoot, Repointed, LifeTypeOK
    <2>. QED BY <2>1, <2>2 DEF WizardSetsRoot, HeldSound, ReadSound, BroughtUp, Up, NotRunning, Registered
<1>. QED BY <1>2, <1>4, <1>5 DEF LifeInv, WizardSetsRoot

LEMMA SettingsSetRootSound == ASSUME LifeInv, SettingsSetRoot PROVE LifeInv'
<1>1. LifeTypeOK BY DEF LifeInv
<1>2. LifeTypeOK' BY <1>1 DEF LifeTypeOK, SettingsSetRoot
<1>3. ASSUME NEW p \in RouterPresets PROVE (HeldSound(p) /\ ReadSound(p) /\ BroughtUp(p))'
    <2>1. HeldSound(p) /\ ReadSound(p) /\ BroughtUp(p) BY DEF LifeInv
    <2>. QED BY <2>1, <1>1 DEF SettingsSetRoot, LifeTypeOK, HeldSound, ReadSound, BroughtUp, Up, NotRunning, Registered
<1>. QED BY <1>2, <1>3 DEF LifeInv, SettingsSetRoot

LEMMA SetsBinarySound == ASSUME LifeInv, SetsBinary PROVE LifeInv'
<1>1. LifeTypeOK BY DEF LifeInv
<1>2. LifeTypeOK' BY <1>1 DEF LifeTypeOK, SetsBinary
<1>3. ASSUME NEW p \in RouterPresets PROVE (HeldSound(p) /\ ReadSound(p) /\ BroughtUp(p))'
    <2>1. HeldSound(p) /\ ReadSound(p) /\ BroughtUp(p) BY DEF LifeInv
    <2>. QED BY <2>1, <1>1 DEF SetsBinary, LifeTypeOK, HeldSound, ReadSound, BroughtUp, Up, NotRunning, Registered
<1>. QED BY <1>2, <1>3 DEF LifeInv, SetsBinary

-----------------------------------------------------------------------------
(* The routers: the end *)

LEMMA ShutdownSound == ASSUME LifeInv, Shutdown PROVE LifeInv'
<1>1. LifeTypeOK BY DEF LifeInv
<1>2. LifeTypeOK' BY <1>1 DEF LifeTypeOK, Phases, Shutdown
<1>3. ASSUME NEW p \in RouterPresets PROVE (HeldSound(p) /\ ReadSound(p) /\ BroughtUp(p))'
    <2>1. HeldSound(p) /\ ReadSound(p) /\ BroughtUp(p) BY DEF LifeInv
    <2>. QED BY <2>1, <1>1 DEF Shutdown, LifeTypeOK, HeldSound, ReadSound, BroughtUp, Up, NotRunning, Registered
<1>. QED BY <1>2, <1>3 DEF LifeInv, Shutdown

LEMMA ExecsSound == ASSUME LifeInv, Execs PROVE LifeInv'
<1>1. LifeTypeOK BY DEF LifeInv
<1>2. LifeTypeOK' BY <1>1 DEF LifeTypeOK, Phases, Execs
<1>3. ASSUME NEW p \in RouterPresets PROVE (HeldSound(p) /\ ReadSound(p) /\ BroughtUp(p))'
    <2>1. HeldSound(p) /\ ReadSound(p) /\ BroughtUp(p) BY DEF LifeInv
    <2>. QED BY <2>1, <1>1 DEF Execs, LifeTypeOK, HeldSound, ReadSound, BroughtUp, Up, NotRunning, Registered
<1>. QED BY <1>2, <1>3 DEF LifeInv, Execs

LEMMA BackendEndsSound == ASSUME LifeInv, BackendEnds PROVE LifeInv'
<1>1. LifeTypeOK BY DEF LifeInv
<1>2. ASSUME NEW p \in RouterPresets
      PROVE  /\ llama'[p] \in LlamaProcess
             /\ Up(p)' => Up(p) /\ llama'[p].read = llama[p].read /\ llama'[p].newer = llama[p].newer
             /\ ~Up(p)' => llama'[p].read = NotRead
    <2>1. PICK alive \in SUBSET {x \in RouterPresets : Up(x)} :
              llama' = [x \in RouterPresets |-> IF x \in alive THEN [llama[x] EXCEPT !.child = FALSE] ELSE NoLlama]
        BY DEF BackendEnds
    <2>2. llama'[p] = IF p \in alive THEN [llama[p] EXCEPT !.child = FALSE] ELSE NoLlama BY <2>1
    <2>3. llama[p] \in LlamaProcess /\ (p \in alive => Up(p)) BY <1>1, <2>1 DEF LifeTypeOK
    <2>4. CASE p \in alive BY <2>2, <2>3, <2>4, NobodysChild DEF Up
    <2>5. CASE p \notin alive BY <2>2, <2>5, NoLlamaType DEF Up
    <2>. QED BY <2>4, <2>5
<1>3. llama' \in [RouterPresets -> LlamaProcess] BY <1>2 DEF BackendEnds
<1>4. LifeTypeOK' BY <1>1, <1>3 DEF LifeTypeOK, BackendEnds, Phases
<1>5. ASSUME NEW p \in RouterPresets PROVE (HeldSound(p) /\ ReadSound(p) /\ BroughtUp(p))'
    <2>1. HeldSound(p) /\ ReadSound(p) /\ BroughtUp(p) BY DEF LifeInv
    <2>2. ReadSound(p)' BY <1>2, <2>1 DEF BackendEnds, ReadSound
    <2>. QED BY <1>2, <2>1, <2>2 DEF BackendEnds, HeldSound, BroughtUp, NotRunning, Registered
<1>. QED BY <1>4, <1>5 DEF LifeInv, BackendEnds

-----------------------------------------------------------------------------
(* Every step of the routers, and the theorems *)

LEMMA LifeInitSound == LifeInit => LifeInv
<1>. SUFFICES ASSUME LifeInit PROVE LifeInv OBVIOUS
<1>1. LifeTypeOK BY NoLlamaType DEF LifeInit, LifeTypeOK, Phases
<1>2. ASSUME NEW p \in RouterPresets PROVE HeldSound(p) /\ ReadSound(p) /\ BroughtUp(p)
    <2>1. llama[p] = NoLlama /\ held[p] = "none" /\ phase = "down" /\ ~pointed BY DEF LifeInit
    <2>. QED BY <2>1, NoLlamaType DEF HeldSound, ReadSound, BroughtUp, Up
<1>. QED BY <1>1, <1>2 DEF LifeInit, LifeInv

LEMMA LifeStep == LifeInv /\ [LifeNext]_lifeVars => LifeInv'
<1>. SUFFICES ASSUME LifeInv, [LifeNext]_lifeVars PROVE LifeInv' OBVIOUS
<1>1. CASE Seeds BY <1>1, SeedsSound
<1>2. CASE BootWritesIni BY <1>2, BootWritesIniSound
<1>3. CASE Scans BY <1>3, ScansSound
<1>4. CASE FindsIdle BY <1>4, FindsIdleSound
<1>5. CASE Serves BY <1>5, ServesSound
<1>6. CASE SavesSibling BY <1>6, SavesSiblingSound
<1>7. CASE FilesChange BY <1>7, FilesChangeSound
<1>8. CASE WizardSetsRoot BY <1>8, WizardSetsRootSound
<1>9. CASE SettingsSetRoot BY <1>9, SettingsSetRootSound
<1>10. CASE SetsBinary BY <1>10, SetsBinarySound
<1>11. CASE Shutdown BY <1>11, ShutdownSound
<1>12. CASE BackendEnds BY <1>12, BackendEndsSound
<1>13. CASE Execs BY <1>13, ExecsSound
<1>14. ASSUME NEW q \in RouterPresets,
             \/ AdoptsOne(q) \/ StartsOne(q) \/ SpawnsOne(q) \/ StartsOneEnds(q) \/ StartsOneFails(q)
             \/ ReadsIni(q) \/ LlamaEnds(q) \/ UserStops(q) \/ PutsRouter(q) \/ DeletesRouter(q)
      PROVE LifeInv'
    <2>1. CASE AdoptsOne(q) BY <2>1, AdoptsOneSound
    <2>2. CASE StartsOne(q) BY <2>2, StartsOneSound
    <2>3. CASE SpawnsOne(q) BY <2>3, SpawnsOneSound
    <2>4. CASE StartsOneEnds(q) BY <2>4, StartsOneEndsSound
    <2>5. CASE StartsOneFails(q) BY <2>5, StartsOneFailsSound
    <2>7. CASE ReadsIni(q) BY <2>7, ReadsIniSound
    <2>8. CASE LlamaEnds(q) BY <2>8, LlamaEndsSound
    <2>9. CASE UserStops(q) BY <2>9, UserStopsSound
    <2>10. CASE PutsRouter(q) BY <2>10, PutsRouterSound
    <2>11. CASE DeletesRouter(q) BY <2>11, DeletesRouterSound
    <2>. QED BY <1>14, <2>1, <2>2, <2>3, <2>4, <2>5, <2>7, <2>8, <2>9, <2>10, <2>11
<1>15. CASE UNCHANGED lifeVars
    <2>1. LifeTypeOK' BY <1>15 DEF LifeInv, LifeTypeOK, lifeVars
    <2>2. ASSUME NEW p \in RouterPresets PROVE (HeldSound(p) /\ ReadSound(p) /\ BroughtUp(p))'
        <3>1. HeldSound(p) /\ ReadSound(p) /\ BroughtUp(p) BY DEF LifeInv
        <3>. QED BY <1>15, <3>1 DEF lifeVars, HeldSound, ReadSound, BroughtUp, Up, NotRunning, Registered
    <2>. QED BY <1>15, <2>1, <2>2 DEF LifeInv, lifeVars
<1>. QED BY <1>1, <1>2, <1>3, <1>4, <1>5, <1>6, <1>7, <1>8, <1>9, <1>10, <1>11, <1>12, <1>13, <1>14, <1>15 DEF LifeNext

\* The argument for both theorems below.
LEMMA LifeInductive == LifeSpec => []LifeInv
<1>. QED BY LifeInitSound, LifeStep, PTL DEF LifeSpec

\* A backend that boots comes to serve with every router that can run, and
\* one that serves an old INI file is shown to be stale, whatever the presets:
\* lifespan(), adopt(), the wizard and the ends of backend and processes.
THEOREM RoutersAlwaysComeBack == LifeSpec => []RoutersComeBack
<1>1. LifeInv => BootBringsRouters BY DEF LifeInv, BroughtUp, BootBringsRouters, Registered
<1>2. LifeInv => StaleIsShown
    <2>. SUFFICES ASSUME LifeInv, NEW p \in RouterPresets \ met, held[p] \in {"ours", "adopted"},
                         llama[p].read \notin {NotRead, iniFile[p]}
                  PROVE  p \in stale
        BY DEF StaleIsShown
    <2>1. ReadSound(p) BY DEF LifeInv
    <2>. QED BY <2>1 DEF ReadSound
<1>3. LifeInv => RoutersComeBack BY <1>1, <1>2 DEF RoutersComeBack
<1>. QED BY <1>3, LifeInductive, PTL

\* Every preset has at most one process, a handle and a file, of the editions
\* there are.
THEOREM LifeTypesHold == LifeSpec => []LifeTypeOK
<1>1. LifeInv => LifeTypeOK BY DEF LifeInv
<1>. QED BY <1>1, LifeInductive, PTL

-----------------------------------------------------------------------------
(* The proxy                                                                 *)

\* While a request runs, the lease that the proxy took for it has its heartbeat,
\* so that it does not expire; afterwards it has none, so that it does, even if
\* the release was cut off.  A stream that never began keeps both.
LeasesAreTended ==
    \A c \in Calls :
        ~call[c].own /\ tenancy[c] = "held" =>
            (heart[c] = "beating" <=> call[c].at \in {"sending", "offered", "streaming", "abandoned"})

\* Who has no lease of its own yet has no heartbeat either, and who brought one
\* never gets one.
HeartsHaveLeases ==
    \A c \in Calls :
        /\ heart[c] # "none" \/ call[c].at = "acquiring" => ~call[c].own
        /\ heart[c] = "beating" => call[c].at \in {"sending", "offered", "streaming", "abandoned"}
        /\ ~call[c].own /\ call[c].at \in {"none", "acquiring"} => heart[c] = "none" /\ tenancy[c] = "none"

ProxyInv == ProxyTypeOK /\ LeasesAreTended /\ HeartsHaveLeases

LEMMA ProxyInitSound == ProxyInit => ProxyInv
<1>. SUFFICES ASSUME ProxyInit PROVE ProxyInv OBVIOUS
<1>1. ASSUME NEW c \in Calls
      PROVE  /\ call[c] \in Call /\ call[c].at = "none" /\ call[c].own \in BOOLEAN
             /\ heart[c] = "none" /\ tenancy[c] = IF call[c].own THEN "held" ELSE "none"
    BY DEF ProxyInit, Call, CallPlaces
<1>2. ProxyTypeOK
    <2>1. DOMAIN call = Calls /\ call = [c \in Calls |-> call[c]] BY DEF ProxyInit
    <2>2. call \in [Calls -> Call] BY <1>1, <2>1
    <2>. QED BY <2>2 DEF ProxyInit, ProxyTypeOK
<1>. QED BY <1>1, <1>2 DEF ProxyInv, LeasesAreTended, HeartsHaveLeases

\* One request goes to another place.
LEMMA CallMoves ==
    ASSUME ProxyTypeOK, NEW c \in Calls, NEW at \in CallPlaces, CallGoes(c, at)
    PROVE  /\ call' \in [Calls -> Call] /\ call'[c].at = at /\ call'[c].own = call[c].own
           /\ \A d \in Calls \ {c} : call'[d] = call[d]
<1>. DEFINE o == [call[c] EXCEPT !.at = at]
<1>1. o \in Call /\ o.at = at /\ o.own = call[c].own BY DEF ProxyTypeOK, Call
<1>2. call' = [call EXCEPT ![c] = o] BY DEF CallGoes
<1>. HIDE DEF o
<1>. QED BY <1>1, <1>2 DEF ProxyTypeOK

\* A step of one request, its heartbeat and its lease leaves the others alone.
LEMMA OneRequestMoves ==
    ASSUME ProxyInv, NEW c \in Calls, NEW h \in {"none", "beating", "over"}, NEW t \in {"none", "held", "gone"},
           call' \in [Calls -> Call], \A d \in Calls \ {c} : call'[d] = call[d], call'[c].own = call[c].own,
           heart' = [heart EXCEPT ![c] = h], tenancy' = [tenancy EXCEPT ![c] = t],
           ~call[c].own /\ t = "held" =>
                (h = "beating" <=> call'[c].at \in {"sending", "offered", "streaming", "abandoned"}),
           h # "none" \/ call'[c].at = "acquiring" => ~call[c].own,
           h = "beating" => call'[c].at \in {"sending", "offered", "streaming", "abandoned"},
           ~call[c].own /\ call'[c].at \in {"none", "acquiring"} => h = "none" /\ t = "none"
    PROVE  ProxyInv'
<1>1. heart'[c] = h /\ tenancy'[c] = t BY DEF ProxyInv, ProxyTypeOK
<1>2. \A d \in Calls \ {c} : heart'[d] = heart[d] /\ tenancy'[d] = tenancy[d] BY DEF ProxyInv, ProxyTypeOK
<1>3. ProxyTypeOK' BY DEF ProxyInv, ProxyTypeOK
<1>4. LeasesAreTended' BY <1>1, <1>2 DEF ProxyInv, LeasesAreTended
<1>5. HeartsHaveLeases' BY <1>1, <1>2 DEF ProxyInv, HeartsHaveLeases
<1>. QED BY <1>3, <1>4, <1>5 DEF ProxyInv

LEMMA ProxyStep == ProxyInv /\ [ProxyNext]_proxyVars => ProxyInv'
<1>. SUFFICES ASSUME ProxyInv, [ProxyNext]_proxyVars PROVE ProxyInv' OBVIOUS
<1>1. CASE UNCHANGED proxyVars
    BY <1>1 DEF proxyVars, ProxyInv, ProxyTypeOK, LeasesAreTended, HeartsHaveLeases
<1>2. ASSUME NEW c \in Calls,
             \/ ComesWithLease(c) \/ ComesWithout(c) \/ CallProceeds(c)
             \/ LeaseLost(c) \/ HeartStops(c)
      PROVE  ProxyInv'
    <2>1. /\ heart[c] \in {"none", "beating", "over"} /\ tenancy[c] \in {"none", "held", "gone"}
          /\ heart = [heart EXCEPT ![c] = heart[c]] /\ tenancy = [tenancy EXCEPT ![c] = tenancy[c]]
          /\ call \in [Calls -> Call] /\ call[c].stream \in BOOLEAN /\ call[c].own \in BOOLEAN
          /\ ProxyTypeOK
        BY DEF ProxyInv, ProxyTypeOK, Call
    <2>2. /\ ~call[c].own /\ tenancy[c] = "held" =>
                (heart[c] = "beating" <=> call[c].at \in {"sending", "offered", "streaming", "abandoned"})
          /\ heart[c] # "none" \/ call[c].at = "acquiring" => ~call[c].own
          /\ heart[c] = "beating" => call[c].at \in {"sending", "offered", "streaming", "abandoned"}
          /\ ~call[c].own /\ call[c].at \in {"none", "acquiring"} => heart[c] = "none" /\ tenancy[c] = "none"
        BY DEF ProxyInv, LeasesAreTended, HeartsHaveLeases
    <2>3. ASSUME NEW at \in CallPlaces, CallGoes(c, at)
          PROVE  /\ call' \in [Calls -> Call] /\ call'[c].at = at /\ call'[c].own = call[c].own
                 /\ \A d \in Calls \ {c} : call'[d] = call[d]
        BY <2>1, <2>3, CallMoves
    <2>4. {"none", "acquiring", "sending", "offered", "streaming", "closing", "over", "abandoned"} \subseteq CallPlaces
        BY DEF CallPlaces
    <2>5. CASE ComesWithLease(c)
        <3>1. PICK at \in {"sending", "offered", "over"} : CallGoes(c, at)
            BY <2>5 DEF ComesWithLease, Forwards
        <3>2. call[c].own /\ heart' = heart /\ tenancy' = tenancy BY <2>5 DEF ComesWithLease
        <3>3. heart[c] = "none" BY <2>1, <2>2, <3>2
        <3>4. /\ call' \in [Calls -> Call] /\ call'[c].at = at /\ call'[c].own = call[c].own
              /\ \A d \in Calls \ {c} : call'[d] = call[d]
            BY <2>3, <2>4, <3>1
        <3>5. heart' = [heart EXCEPT ![c] = heart[c]] /\ tenancy' = [tenancy EXCEPT ![c] = tenancy[c]]
            BY <2>1, <3>2
        <3>. QED BY <2>1, <3>2, <3>3, <3>4, <3>5, OneRequestMoves
    <2>6. CASE ComesWithout(c)
        <3>1. CallGoes(c, "acquiring") /\ ~call[c].own /\ call[c].at = "none" /\ heart' = heart /\ tenancy' = tenancy
            BY <2>6 DEF ComesWithout
        <3>2. /\ call' \in [Calls -> Call] /\ call'[c].at = "acquiring" /\ call'[c].own = call[c].own
              /\ \A d \in Calls \ {c} : call'[d] = call[d]
            BY <2>3, <2>4, <3>1
        <3>3. heart[c] = "none" /\ tenancy[c] = "none" BY <2>2, <3>1
        <3>4. heart' = [heart EXCEPT ![c] = heart[c]] /\ tenancy' = [tenancy EXCEPT ![c] = tenancy[c]]
            BY <2>1, <3>1
        <3>. QED BY <2>1, <3>1, <3>2, <3>3, <3>4, OneRequestMoves
    <2>7. CASE Acquired(c)
        <3>1. PICK at \in {"sending", "offered"} : CallGoes(c, at) BY <2>7 DEF Acquired, Forwards
        <3>2. /\ call[c].at = "acquiring"
              /\ heart' = [heart EXCEPT ![c] = "beating"] /\ tenancy' = [tenancy EXCEPT ![c] = "held"]
            BY <2>7 DEF Acquired
        <3>3. /\ call' \in [Calls -> Call] /\ call'[c].at = at /\ call'[c].own = call[c].own
              /\ \A d \in Calls \ {c} : call'[d] = call[d]
            BY <2>3, <2>4, <3>1
        <3>4. ~call[c].own BY <2>2, <3>2
        <3>. QED BY <3>2, <3>3, <3>4, OneRequestMoves
    <2>8. CASE Refused(c)
        <3>1. PICK at : at = "over" /\ CallGoes(c, at) BY <2>8 DEF Refused
        <3>2. call[c].at = "acquiring" /\ heart' = heart /\ tenancy' = tenancy BY <2>8 DEF Refused
        <3>3. /\ call' \in [Calls -> Call] /\ call'[c].at = at /\ call'[c].own = call[c].own
              /\ \A d \in Calls \ {c} : call'[d] = call[d]
            BY <2>3, <2>4, <3>1
        <3>4. heart' = [heart EXCEPT ![c] = heart[c]] /\ tenancy' = [tenancy EXCEPT ![c] = tenancy[c]]
            BY <2>1, <3>2
        <3>. QED BY <2>1, <2>2, <3>1, <3>2, <3>3, <3>4, OneRequestMoves
    <2>9. CASE GeneratorBegins(c)
        <3>1. PICK at : at = "streaming" /\ CallGoes(c, at) BY <2>9 DEF GeneratorBegins
        <3>2. call[c].at = "offered" /\ heart' = heart /\ tenancy' = tenancy BY <2>9 DEF GeneratorBegins
        <3>3. /\ call' \in [Calls -> Call] /\ call'[c].at = at /\ call'[c].own = call[c].own
              /\ \A d \in Calls \ {c} : call'[d] = call[d]
            BY <2>3, <2>4, <3>1
        <3>4. heart' = [heart EXCEPT ![c] = heart[c]] /\ tenancy' = [tenancy EXCEPT ![c] = tenancy[c]]
            BY <2>1, <3>2
        <3>. QED BY <2>1, <2>2, <3>1, <3>2, <3>3, <3>4, OneRequestMoves
    <2>10. CASE ClientLeavesEarly(c)
        <3>1. PICK at : at = "abandoned" /\ CallGoes(c, at) BY <2>10 DEF ClientLeavesEarly
        <3>2. call[c].at = "offered" /\ heart' = heart /\ tenancy' = tenancy BY <2>10 DEF ClientLeavesEarly
        <3>3. /\ call' \in [Calls -> Call] /\ call'[c].at = at /\ call'[c].own = call[c].own
              /\ \A d \in Calls \ {c} : call'[d] = call[d]
            BY <2>3, <2>4, <3>1
        <3>4. heart' = [heart EXCEPT ![c] = heart[c]] /\ tenancy' = [tenancy EXCEPT ![c] = tenancy[c]]
            BY <2>1, <3>2
        <3>. QED BY <2>1, <2>2, <3>1, <3>2, <3>3, <3>4, OneRequestMoves
    <2>11. CASE ReleaseCut(c)
        <3>1. PICK at : at = "over" /\ CallGoes(c, at) BY <2>11 DEF ReleaseCut
        <3>2. call[c].at = "closing" /\ heart' = heart /\ tenancy' = tenancy BY <2>11 DEF ReleaseCut
        <3>3. /\ call' \in [Calls -> Call] /\ call'[c].at = at /\ call'[c].own = call[c].own
              /\ \A d \in Calls \ {c} : call'[d] = call[d]
            BY <2>3, <2>4, <3>1
        <3>4. heart' = [heart EXCEPT ![c] = heart[c]] /\ tenancy' = [tenancy EXCEPT ![c] = tenancy[c]]
            BY <2>1, <3>2
        <3>. QED BY <2>1, <2>2, <3>1, <3>2, <3>3, <3>4, OneRequestMoves
    <2>12. CASE Upstream(c)
        <3>1. PICK at : at = "closing" /\ CallGoes(c, at) BY <2>12 DEF Upstream
        <3>2. PICK h : h = IF heart[c] = "beating" THEN "over" ELSE heart[c] OBVIOUS
        <3>3. /\ call' \in [Calls -> Call] /\ call'[c].at = at /\ call'[c].own = call[c].own
              /\ \A d \in Calls \ {c} : call'[d] = call[d]
            BY <2>3, <2>4, <3>1
        <3>4. heart' = [heart EXCEPT ![c] = h] /\ tenancy' = [tenancy EXCEPT ![c] = tenancy[c]]
            BY <2>1, <2>12, <3>2 DEF Upstream, HeartCancelled
        <3>5. h \in {"none", "over"} /\ (h # "none" => ~call[c].own) BY <2>1, <2>2, <3>2
        <3>6. call[c].at \in {"sending", "streaming"} BY <2>12 DEF Upstream
        <3>7. ~call[c].own /\ tenancy[c] = "held" =>
                 (h = "beating" <=> call'[c].at \in {"sending", "offered", "streaming", "abandoned"})
            BY <3>1, <3>3, <3>5
        <3>. QED BY <2>1, <3>1, <3>3, <3>4, <3>5, <3>7, OneRequestMoves
    <2>13. CASE Releases(c)
        <3>1. PICK at : at = "over" /\ CallGoes(c, at) BY <2>13 DEF Releases
        <3>2. PICK t : t = IF tenancy[c] = "held" /\ ~call[c].own THEN "gone" ELSE tenancy[c] OBVIOUS
        <3>3. /\ call' \in [Calls -> Call] /\ call'[c].at = at /\ call'[c].own = call[c].own
              /\ \A d \in Calls \ {c} : call'[d] = call[d]
            BY <2>3, <2>4, <3>1
        <3>4. heart' = [heart EXCEPT ![c] = heart[c]] /\ tenancy' = [tenancy EXCEPT ![c] = t]
            BY <2>1, <2>13, <3>2 DEF Releases
        <3>5. t \in {"none", "held", "gone"} /\ (t = "held" => call[c].own) BY <2>1, <3>2
        <3>6. heart[c] # "beating" BY <2>2, <2>13 DEF Releases
        <3>. QED BY <2>1, <2>2, <3>1, <3>3, <3>4, <3>5, <3>6, OneRequestMoves
    <2>14. CASE LeaseLost(c)
        <3>1. call' = call /\ heart' = [heart EXCEPT ![c] = heart[c]] /\ tenancy' = [tenancy EXCEPT ![c] = "gone"]
              /\ tenancy[c] = "held"
            BY <2>1, <2>14 DEF LeaseLost
        <3>. QED BY <2>1, <2>2, <3>1, OneRequestMoves
    <2>15. CASE HeartStops(c)
        <3>1. call' = call /\ heart' = [heart EXCEPT ![c] = "over"] /\ tenancy' = [tenancy EXCEPT ![c] = tenancy[c]]
              /\ tenancy[c] # "held" /\ heart[c] = "beating"
            BY <2>1, <2>15 DEF HeartStops
        <3>. QED BY <2>1, <2>2, <3>1, OneRequestMoves
    <2>. QED
        BY <1>2, <2>5, <2>6, <2>7, <2>8, <2>9, <2>10, <2>11, <2>12, <2>13, <2>14, <2>15 DEF CallProceeds
<1>. QED BY <1>1, <1>2 DEF ProxyNext

\* The lease that the proxy takes for a request is kept alive as long as the
\* request runs and not a heartbeat longer, whatever the clients, llama-server and
\* the broker do: _heartbeat_loop() and the finally of the handlers.
THEOREM LeasesAreNotForgotten == ProxySpec => [](ProxyTypeOK /\ LeasesAreTended)
<1>1. ProxyInv => ProxyTypeOK /\ LeasesAreTended BY DEF ProxyInv
<1>. QED BY <1>1, ProxyInitSound, ProxyStep, PTL DEF ProxySpec

-----------------------------------------------------------------------------
(* The types                                                                  *)

\* What the watchdog sees and counts.
ServersAreSeen ==
    /\ server \in [Watched -> Server]
    /\ failCounts \in [Watched -> [AllTargets -> 0..FailThreshold]]
    /\ due \subseteq Watched

LEMMA SeenAtFirst == WatchdogInit => ServersAreSeen
<1>. SUFFICES ASSUME WatchdogInit PROVE ServersAreSeen OBVIOUS
<1>1. \A p \in Watched : Targets(p) \subseteq AllTargets BY DEF Targets, AllTargets
<1>2. server \in [Watched -> Server]
    <2>1. PICK on \in SUBSET Watched :
              server = [p \in Watched |-> [running |-> p \in on, loaded |-> Targets(p), hung |-> {}]]
        BY DEF WatchdogInit
    <2>2. \A p \in Watched : [running |-> p \in on, loaded |-> Targets(p), hung |-> {}] \in Server
        BY <1>1 DEF Server
    <2>. QED BY <2>1, <2>2
<1>3. failCounts \in [Watched -> [AllTargets -> 0..FailThreshold]]
    BY WatchdogAssumption DEF WatchdogInit
<1>. QED BY <1>2, <1>3 DEF WatchdogInit, ServersAreSeen

\* One preset is seen to be another way.
LEMMA SeenAnew ==
    ASSUME ServersAreSeen, NEW p \in Watched, NEW s \in Server, server' = [server EXCEPT ![p] = s],
           UNCHANGED <<failCounts, due>>
    PROVE  ServersAreSeen'
BY DEF ServersAreSeen

LEMMA VisitCounts == ASSUME ServersAreSeen, NEW p \in Watched, NEW ok \in BOOLEAN, Visit(p, ok) PROVE ServersAreSeen'
<1>1. FailThreshold \in Nat /\ FailThreshold > 0 BY WatchdogAssumption
<1>. DEFINE counts == IF p \in Routers /\ Listed(p) = {} THEN Forgiven(p) ELSE Probed(p)
<1>2. /\ server \in [Watched -> Server] /\ failCounts \in [Watched -> [AllTargets -> 0..FailThreshold]]
      /\ due \subseteq Watched
    BY DEF ServersAreSeen
<1>3. ASSUME NEW m \in AllTargets
      PROVE  (IF m \notin Probes(p) THEN failCounts[p][m]
              ELSE IF m \notin server[p].hung THEN 0
              ELSE IF failCounts[p][m] < FailThreshold THEN failCounts[p][m] + 1
              ELSE failCounts[p][m]) \in 0..FailThreshold
    <2>1. failCounts[p][m] \in 0..FailThreshold BY <1>2
    <2>. QED BY <1>1, <2>1
<1>4. Probed(p) \in [Watched -> [AllTargets -> 0..FailThreshold]] BY <1>2, <1>3 DEF Probed
<1>5. Forgiven(p) \in [Watched -> [AllTargets -> 0..FailThreshold]] BY <1>1, <1>2 DEF Forgiven
<1>6. counts \in [Watched -> [AllTargets -> 0..FailThreshold]] BY <1>4, <1>5
<1>7. /\ due' = due \ {p}
      /\ \/ Restarts(p, counts, ok)
         \/ failCounts' = counts /\ server' = server
    BY DEF Visit
<1>. HIDE DEF counts
<1>8. failCounts' \in [Watched -> [AllTargets -> 0..FailThreshold]]
    <2>1. [m \in AllTargets |-> 0] \in [AllTargets -> 0..FailThreshold] BY <1>1
    <2>2. \/ failCounts' = counts
          \/ failCounts' = [counts EXCEPT ![p] = [m \in AllTargets |-> 0]]
        BY <1>7 DEF Restarts
    <2>. QED BY <1>6, <2>1, <2>2
<1>9. server' \in [Watched -> Server]
    <2>1. CASE server' = server BY <1>2, <2>1
    <2>2. CASE Restarts(p, counts, ok)
        <3>. DEFINE s == [server[p] EXCEPT !.hung = IF ok THEN {} ELSE @]
        <3>1. s \in Server BY <1>2 DEF Server
        <3>2. server' = [server EXCEPT ![p] = s] BY <2>2 DEF Restarts
        <3>. HIDE DEF s
        <3>. QED BY <1>2, <3>1, <3>2
    <2>. QED BY <1>7, <2>1, <2>2
<1>. QED BY <1>2, <1>7, <1>8, <1>9 DEF ServersAreSeen

LEMMA SeenStep == ServersAreSeen /\ [WatchdogNext]_watchdogVars => ServersAreSeen'
<1>. SUFFICES ASSUME ServersAreSeen, [WatchdogNext]_watchdogVars PROVE ServersAreSeen' OBVIOUS
<1>1. CASE Tick \/ UNCHANGED watchdogVars BY <1>1 DEF Tick, watchdogVars, ServersAreSeen
<1>2. ASSUME NEW p \in Watched PROVE server[p] \in Server BY DEF ServersAreSeen
<1>3. ASSUME NEW p \in Watched, Visited(p) PROVE ServersAreSeen'
    <2>1. CASE Skip(p) BY <2>1 DEF Skip, ServersAreSeen
    <2>. QED BY <1>3, <2>1, VisitCounts DEF Visited
<1>4. ASSUME NEW p \in Watched, Toggles(p) PROVE ServersAreSeen'
    <2>. DEFINE s == [server[p] EXCEPT !.running = ~@, !.hung = {}]
    <2>1. s \in Server BY <1>2 DEF Server
    <2>2. server' = [server EXCEPT ![p] = s] /\ UNCHANGED <<failCounts, due>> BY <1>4 DEF Toggles
    <2>. HIDE DEF s
    <2>. QED BY <2>1, <2>2, SeenAnew
<1>5. ASSUME NEW p \in Watched, NEW m \in AllTargets, Hangs(p, m) PROVE ServersAreSeen'
    <2>. DEFINE s == [server[p] EXCEPT !.hung = @ \union {m}]
    <2>1. s \in Server BY <1>2 DEF Server
    <2>2. server' = [server EXCEPT ![p] = s] /\ UNCHANGED <<failCounts, due>> BY <1>5 DEF Hangs
    <2>. HIDE DEF s
    <2>. QED BY <2>1, <2>2, SeenAnew
<1>6. ASSUME NEW p \in Watched, NEW m \in AllTargets, Recovers(p, m) PROVE ServersAreSeen'
    <2>. DEFINE s == [server[p] EXCEPT !.hung = @ \ {m}]
    <2>1. s \in Server BY <1>2 DEF Server
    <2>2. server' = [server EXCEPT ![p] = s] /\ UNCHANGED <<failCounts, due>> BY <1>6 DEF Recovers
    <2>. HIDE DEF s
    <2>. QED BY <2>1, <2>2, SeenAnew
<1>7. ASSUME NEW p \in Routers, NEW m \in RouterModels, LoadsOther(p, m) PROVE ServersAreSeen'
    <2>. DEFINE s == [server[p] EXCEPT !.loaded = SymDiff(@, {m}), !.hung = @ \ {m}]
    <2>0. p \in Watched /\ m \in AllTargets BY DEF Watched, AllTargets
    <2>1. s \in Server BY <1>2, <2>0 DEF Server, SymDiff
    <2>2. server' = [server EXCEPT ![p] = s] /\ UNCHANGED <<failCounts, due>> BY <1>7 DEF LoadsOther
    <2>. HIDE DEF s
    <2>. QED BY <2>0, <2>1, <2>2, SeenAnew
<1>. QED BY <1>1, <1>3, <1>4, <1>5, <1>6, <1>7 DEF WatchdogNext

\* The watchdog, the rpc-servers, the boot and the proxy keep their types; the
\* watchdog never counts further than its threshold (health_watchdog.py).
THEOREM ServersAreTyped ==
    WatchdogSpec /\ RpcSpec /\ LifeSpec /\ ProxySpec
    => [](WatchdogTypeOK /\ RpcTypeOK /\ LifeTypeOK /\ ProxyTypeOK)
<1>1. WatchdogInv /\ ServersAreSeen => WatchdogTypeOK
    BY DEF WatchdogInv, ServersAreSeen, WatchdogTypeOK
<1>2. RpcInv => RpcTypeOK BY DEF RpcInv
<1>3. WatchdogSpec => [](WatchdogInv /\ ServersAreSeen)
    BY WatchdogInitSound, WatchdogStep, SeenAtFirst, SeenStep, PTL DEF WatchdogSpec
<1>4. RpcSpec => []RpcInv BY RpcInitSound, RpcStep, PTL DEF RpcSpec
<1>. QED BY <1>1, <1>2, <1>3, <1>4, LifeTypesHold, LeasesAreNotForgotten, PTL

=============================================================================
