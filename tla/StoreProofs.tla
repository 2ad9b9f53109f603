----------------------------- MODULE StoreProofs -----------------------------
(***************************************************************************)
(* What is stored in two forms is one thing: the sections of the router's  *)
(* file are its presets, and a preset's fields are its command, for all    *)
(* presets, models, values and commands.  The table of models has what a   *)
(* rescan saw and remembers what was used, for all files, rescans and      *)
(* changes of the disk.  The corrections of estimates are the measured     *)
(* ones and outlive the backend, for all vendors, presets and formulas,    *)
(* with failures between any two statements and a backend that ends at any *)
(* moment.                                                                 *)
(***************************************************************************)
EXTENDS Stores, ModelRegistry, VramCalibration, FiniteSetTheorems, SequenceTheorems, TLAPS

-----------------------------------------------------------------------------
(* Folds over sequences, without induction over data.  Step stands for the *)
(* operators that the two modules fold, so that what holds of every fold   *)
(* is proved once.                                                         *)

Step(k, st, e) ==
    CASE k = "preset" -> WithPreset(st, e)
      [] k = "file"   -> WithFile(st, e)
      [] k = "token"  -> Taken(st, e)
      [] OTHER        -> Said(st, e)

\* What FoldLeft computes for every set of places of a sequence.
IsRun(it, k, base, q, S) ==
    it = [s \in SUBSET S |-> IF s = {} THEN base ELSE Step(k, it[s \ {Max(s)}], q[Max(s)])]

Run(k, base, q) == CHOOSE it : IsRun(it, k, base, q, DOMAIN q)
After(k, base, q, n) == Run(k, base, q)[1..n]

\* Every set of numbers that is not empty has a least one.
LEMMA SmallestNumber ==
    ASSUME NEW T \in SUBSET Nat, T # {}
    PROVE  \E x \in T : \A y \in T : x <= y
<1>. DEFINE R == OpToRel(<, Nat)
<1>1. IsWellFoundedOn(R, Nat) BY NatLessThanWellFounded
<1>2. \A x, y \in Nat : <<y, x>> \in R <=> y < x BY DEF OpToRel
<1>. HIDE DEF R
<1>3. PICK x \in T : \A y \in T : <<y, x>> \notin R BY <1>1, WFMin
<1>4. ASSUME NEW y \in T PROVE x <= y
    <2>1. x \in Nat /\ y \in Nat OBVIOUS
    <2>2. ~(y < x) BY <1>2, <1>3, <2>1
    <2>. QED BY <2>1, <2>2
<1>. QED BY <1>4

\* Numbers up to n are reached from 0.
LEMMA Reached ==
    ASSUME NEW n \in Nat, NEW T, 0 \in T, \A i \in 0..(n - 1) : i \in T => i + 1 \in T
    PROVE  \A i \in 0..n : i \in T
<1>. DEFINE Bad == {i \in 0..n : i \notin T}
<1>. SUFFICES ASSUME Bad # {} PROVE FALSE OBVIOUS
<1>1. PICK i \in Bad : \A j \in Bad : i <= j
    <2>1. Bad \in SUBSET Nat OBVIOUS
    <2>. HIDE DEF Bad
    <2>. QED BY <2>1, SmallestNumber
<1>2. i \in 1..n BY <1>1
<1>3. i - 1 \in 0..(n - 1) /\ i - 1 \in T BY <1>1, <1>2
<1>. QED BY <1>2, <1>3

\* A set of places has a last one.
LEMMA LastPlace ==
    ASSUME NEW n \in Nat, NEW s \in SUBSET (1..n), s # {}
    PROVE  Max(s) \in s /\ \A i \in s : i <= Max(s)
<1>. DEFINE over == {m \in 0..n : \A i \in s : i <= m}
<1>1. over # {} /\ over \in SUBSET Nat
    <2>1. n \in over OBVIOUS
    <2>. QED BY <2>1
<1>2. PICK m \in over : \A o \in over : m <= o
    <2>. HIDE DEF over
    <2>. QED BY <1>1, SmallestNumber
<1>3. m \in s
    <2>. SUFFICES ASSUME m \notin s PROVE FALSE OBVIOUS
    <2>1. \A i \in s : i \in 1..n /\ i <= m /\ i # m OBVIOUS
    <2>2. m \in 0..n OBVIOUS
    <2>3. m - 1 \in 0..n
        <3>1. PICK i \in s : TRUE OBVIOUS
        <3>. QED BY <3>1, <2>1, <2>2
    <2>4. m - 1 \in over BY <2>1, <2>2, <2>3
    <2>5. m <= m - 1 BY <1>2, <2>4
    <2>. QED BY <2>2, <2>5
<1>. QED BY <1>3 DEF Max

LEMMA LastOfFirst ==
    ASSUME NEW n \in Nat \ {0}
    PROVE  Max(1..n) = n /\ (1..n) \ {n} = 1..(n - 1)
<1>1. PICK s : s = 1..n OBVIOUS
<1>2. Max(s) \in s /\ \A i \in s : i <= Max(s)
    <2>1. s \in SUBSET (1..n) /\ s # {} BY <1>1
    <2>. QED BY <2>1, LastPlace
<1>3. Max(1..n) = n BY <1>1, <1>2
<1>. QED BY <1>3

\* A sequence has one run.
LEMMA RunsAgree ==
    ASSUME NEW k, NEW base, NEW q, NEW n \in Nat, NEW S,
           \A i \in S : i \in 1..n,
           NEW a, NEW b, IsRun(a, k, base, q, S), IsRun(b, k, base, q, S)
    PROVE  a[S] = b[S]
<1>0. S \in SUBSET (1..n) OBVIOUS
<1>. DEFINE T == {m \in 0..n : \A s \in SUBSET S : s \subseteq 1..m => a[s] = b[s]}
<1>1. 0 \in T
    <2>1. \A s \in SUBSET S : s \subseteq 1..0 => s = {} OBVIOUS
    <2>2. a[{}] = base /\ b[{}] = base BY DEF IsRun
    <2>3. 0 \in 0..n OBVIOUS
    <2>. QED BY <2>1, <2>2, <2>3
<1>2. ASSUME NEW m \in 0..(n - 1), m \in T PROVE m + 1 \in T
    <2>1. ASSUME NEW s \in SUBSET S, s \subseteq 1..(m + 1) PROVE a[s] = b[s]
        <3>1. s \in SUBSET S BY <2>1
        <3>2. a[s] = IF s = {} THEN base ELSE Step(k, a[s \ {Max(s)}], q[Max(s)]) BY <3>1 DEF IsRun
        <3>3. b[s] = IF s = {} THEN base ELSE Step(k, b[s \ {Max(s)}], q[Max(s)]) BY <3>1 DEF IsRun
        <3>4. CASE s = {} BY <3>2, <3>3, <3>4
        <3>5. CASE s # {}
            <4>1. PICK x : x = Max(s) OBVIOUS
            <4>2. x \in s /\ \A i \in s : i <= x BY <3>1, <3>5, <4>1, LastPlace
            <4>3. s \ {x} \in SUBSET S /\ s \ {x} \subseteq 1..m BY <2>1, <4>2
            <4>4. a[s \ {x}] = b[s \ {x}] BY <1>2, <4>3
            <4>. QED BY <3>2, <3>3, <3>5, <4>1, <4>4
        <3>. QED BY <3>4, <3>5
    <2>2. m + 1 \in 0..n OBVIOUS
    <2>. QED BY <2>1, <2>2
<1>3. n \in T
    <2>. HIDE DEF T
    <2>. QED BY <1>1, <1>2, Reached
<1>. QED BY <1>3

\* Every sequence has a run.
LEMMA RunsAre ==
    ASSUME NEW k, NEW base, NEW q, NEW n \in Nat
    PROVE  \E it : IsRun(it, k, base, q, 1..n)
<1>. DEFINE T == {m \in 0..n : \E it : IsRun(it, k, base, q, 1..m)}
<1>1. 0 \in T
    <2>. DEFINE it == [s \in SUBSET (1..0) |-> base]
    <2>1. \A s \in SUBSET (1..0) : s = {} OBVIOUS
    <2>2. it = [s \in SUBSET (1..0) |-> IF s = {} THEN base ELSE Step(k, it[s \ {Max(s)}], q[Max(s)])]
        BY <2>1
    <2>. HIDE DEF it
    <2>3. IsRun(it, k, base, q, 1..0) BY <2>2 DEF IsRun
    <2>4. 0 \in 0..n OBVIOUS
    <2>. QED BY <2>3, <2>4
<1>2. ASSUME NEW m \in 0..(n - 1), m \in T PROVE m + 1 \in T
    <2>1. PICK a : IsRun(a, k, base, q, 1..m) BY <1>2
    <2>. DEFINE it == [s \in SUBSET (1..(m + 1)) |->
                         IF s \in SUBSET (1..m) THEN a[s] ELSE Step(k, a[s \ {Max(s)}], q[Max(s)])]
    <2>2. ASSUME NEW s \in SUBSET (1..(m + 1))
          PROVE  it[s] = IF s = {} THEN base ELSE Step(k, it[s \ {Max(s)}], q[Max(s)])
        <3>1. CASE s = {}
            <4>1. a[s] = base BY <2>1, <3>1 DEF IsRun
            <4>. QED BY <3>1, <4>1
        <3>2. CASE s # {}
            <4>1. PICK x : x = Max(s) OBVIOUS
            <4>2. x \in s /\ \A i \in s : i <= x
                <5>1. PICK o : o = m + 1 OBVIOUS
                <5>2. o \in Nat /\ s \in SUBSET (1..o) BY <5>1
                <5>. QED BY <3>2, <4>1, <5>2, LastPlace
            <4>3. s \ {x} \in SUBSET (1..m) BY <4>2
            <4>4. it[s \ {x}] = a[s \ {x}] BY <4>3
            <4>5. s \in SUBSET (1..m) => a[s] = Step(k, a[s \ {x}], q[x])
                BY <2>1, <3>2, <4>1 DEF IsRun
            <4>6. it[s] = Step(k, a[s \ {x}], q[x]) BY <4>1, <4>5
            <4>. HIDE DEF it
            <4>. QED BY <3>2, <4>1, <4>4, <4>6
        <3>. QED BY <3>1, <3>2
    <2>3. it = [s \in SUBSET (1..(m + 1)) |-> it[s]] OBVIOUS
    <2>. HIDE DEF it
    <2>4. IsRun(it, k, base, q, 1..(m + 1)) BY <2>2, <2>3 DEF IsRun
    <2>5. m + 1 \in 0..n OBVIOUS
    <2>. QED BY <2>4, <2>5
<1>3. n \in T
    <2>. HIDE DEF T
    <2>. QED BY <1>1, <1>2, Reached
<1>. QED BY <1>3

LEMMA RunIs ==
    ASSUME NEW k, NEW base, NEW n \in Nat, NEW q, DOMAIN q = 1..n
    PROVE  IsRun(Run(k, base, q), k, base, q, DOMAIN q)
<1>1. \E it : IsRun(it, k, base, q, DOMAIN q) BY RunsAre
<1>. QED BY <1>1 DEF Run

\* A fold starts with its base and takes one element after the other.
LEMMA AfterNone ==
    ASSUME NEW k, NEW base, NEW n \in Nat, NEW q, DOMAIN q = 1..n
    PROVE  After(k, base, q, 0) = base
<1>1. IsRun(Run(k, base, q), k, base, q, DOMAIN q) BY RunIs
<1>2. 1..0 = {} OBVIOUS
<1>. QED BY <1>1, <1>2 DEF After, IsRun

LEMMA AfterOneMore ==
    ASSUME NEW k, NEW base, NEW n \in Nat, NEW q, DOMAIN q = 1..n, NEW i \in 1..n
    PROVE  After(k, base, q, i) = Step(k, After(k, base, q, i - 1), q[i])
<1>1. IsRun(Run(k, base, q), k, base, q, DOMAIN q) BY RunIs
<1>2. Max(1..i) = i /\ (1..i) \ {i} = 1..(i - 1) BY LastOfFirst
<1>3. 1..i \in SUBSET (DOMAIN q) /\ 1..i # {} OBVIOUS
<1>4. Run(k, base, q)[1..i] = Step(k, Run(k, base, q)[(1..i) \ {Max(1..i)}], q[Max(1..i)])
    BY <1>1, <1>3 DEF IsRun
<1>. QED BY <1>2, <1>4 DEF After

\* FoldLeft, for each of the operators.
LEMMA FoldOfPresets ==
    ASSUME NEW base, NEW n \in Nat, NEW q, DOMAIN q = 1..n
    PROVE  FoldLeft(WithPreset, base, q) = After("preset", base, q, n)
<1>. DEFINE Is(it) == it = [s \in SUBSET (DOMAIN q) |->
                              IF s = {} THEN base ELSE WithPreset(it[s \ {Max(s)}], q[Max(s)])]
            the == CHOOSE it : Is(it)
<1>1. \A it : Is(it) <=> IsRun(it, "preset", base, q, DOMAIN q) BY DEF IsRun, Step
<1>2. IsRun(Run("preset", base, q), "preset", base, q, DOMAIN q) BY RunIs
<1>3. FoldLeft(WithPreset, base, q) = the[DOMAIN q] BY DEF FoldLeft, MapThenFoldSet
<1>4. Is(the)
    <2>. HIDE DEF Is
    <2>. QED BY <1>1, <1>2
<1>5. IsRun(the, "preset", base, q, DOMAIN q) BY <1>1, <1>4
<1>. HIDE DEF the
<1>6. PICK S : S = DOMAIN q OBVIOUS
<1>7. \A i \in S : i \in 1..n BY <1>6
<1>8. the[S] = Run("preset", base, q)[S]
    <2>1. IsRun(Run("preset", base, q), "preset", base, q, S) /\ IsRun(the, "preset", base, q, S)
        BY <1>2, <1>5, <1>6
    <2>. QED BY <1>7, <2>1, RunsAgree
<1>. QED BY <1>3, <1>6, <1>8 DEF After

LEMMA FoldOfFiles ==
    ASSUME NEW base, NEW n \in Nat, NEW q, DOMAIN q = 1..n
    PROVE  FoldLeft(WithFile, base, q) = After("file", base, q, n)
<1>. DEFINE Is(it) == it = [s \in SUBSET (DOMAIN q) |->
                              IF s = {} THEN base ELSE WithFile(it[s \ {Max(s)}], q[Max(s)])]
            the == CHOOSE it : Is(it)
<1>1. \A it : Is(it) <=> IsRun(it, "file", base, q, DOMAIN q) BY DEF IsRun, Step
<1>2. IsRun(Run("file", base, q), "file", base, q, DOMAIN q) BY RunIs
<1>3. FoldLeft(WithFile, base, q) = the[DOMAIN q] BY DEF FoldLeft, MapThenFoldSet
<1>4. Is(the)
    <2>. HIDE DEF Is
    <2>. QED BY <1>1, <1>2
<1>5. IsRun(the, "file", base, q, DOMAIN q) BY <1>1, <1>4
<1>. HIDE DEF the
<1>6. PICK S : S = DOMAIN q OBVIOUS
<1>7. \A i \in S : i \in 1..n BY <1>6
<1>8. the[S] = Run("file", base, q)[S]
    <2>1. IsRun(Run("file", base, q), "file", base, q, S) /\ IsRun(the, "file", base, q, S)
        BY <1>2, <1>5, <1>6
    <2>. QED BY <1>7, <2>1, RunsAgree
<1>. QED BY <1>3, <1>6, <1>8 DEF After

LEMMA FoldOfTokens ==
    ASSUME NEW base, NEW n \in Nat, NEW q, DOMAIN q = 1..n
    PROVE  FoldLeft(Taken, base, q) = After("token", base, q, n)
<1>. DEFINE Is(it) == it = [s \in SUBSET (DOMAIN q) |->
                              IF s = {} THEN base ELSE Taken(it[s \ {Max(s)}], q[Max(s)])]
            the == CHOOSE it : Is(it)
<1>1. \A it : Is(it) <=> IsRun(it, "token", base, q, DOMAIN q) BY DEF IsRun, Step
<1>2. IsRun(Run("token", base, q), "token", base, q, DOMAIN q) BY RunIs
<1>3. FoldLeft(Taken, base, q) = the[DOMAIN q] BY DEF FoldLeft, MapThenFoldSet
<1>4. Is(the)
    <2>. HIDE DEF Is
    <2>. QED BY <1>1, <1>2
<1>5. IsRun(the, "token", base, q, DOMAIN q) BY <1>1, <1>4
<1>. HIDE DEF the
<1>6. PICK S : S = DOMAIN q OBVIOUS
<1>7. \A i \in S : i \in 1..n BY <1>6
<1>8. the[S] = Run("token", base, q)[S]
    <2>1. IsRun(Run("token", base, q), "token", base, q, S) /\ IsRun(the, "token", base, q, S)
        BY <1>2, <1>5, <1>6
    <2>. QED BY <1>7, <2>1, RunsAgree
<1>. QED BY <1>3, <1>6, <1>8 DEF After

LEMMA FoldOfWords ==
    ASSUME NEW base, NEW n \in Nat, NEW q, DOMAIN q = 1..n
    PROVE  FoldLeft(Said, base, q) = After("said", base, q, n)
<1>. DEFINE Is(it) == it = [s \in SUBSET (DOMAIN q) |->
                              IF s = {} THEN base ELSE Said(it[s \ {Max(s)}], q[Max(s)])]
            the == CHOOSE it : Is(it)
<1>1. \A it : Is(it) <=> IsRun(it, "said", base, q, DOMAIN q) BY DEF IsRun, Step
<1>2. IsRun(Run("said", base, q), "said", base, q, DOMAIN q) BY RunIs
<1>3. FoldLeft(Said, base, q) = the[DOMAIN q] BY DEF FoldLeft, MapThenFoldSet
<1>4. Is(the)
    <2>. HIDE DEF Is
    <2>. QED BY <1>1, <1>2
<1>5. IsRun(the, "said", base, q, DOMAIN q) BY <1>1, <1>4
<1>. HIDE DEF the
<1>6. PICK S : S = DOMAIN q OBVIOUS
<1>7. \A i \in S : i \in 1..n BY <1>6
<1>8. the[S] = Run("said", base, q)[S]
    <2>1. IsRun(Run("said", base, q), "said", base, q, S) /\ IsRun(the, "said", base, q, S)
        BY <1>2, <1>5, <1>6
    <2>. QED BY <1>7, <2>1, RunsAgree
<1>. QED BY <1>3, <1>6, <1>8 DEF After

-----------------------------------------------------------------------------
(* The sections of the router's file                                       *)

NamesAreUnique(ps) == \A i, j \in DOMAIN ps : ps[i].name = ps[j].name => i = j

\* A preset has the name x, and one before it a model of that id.
Clash(ps, x) == \E i, j \in DOMAIN ps : j < i /\ ps[i].name = x /\ ModelId[ps[j].model] = x

\* A table whose first sections are those of n presets, and others of files.
Tabled(t, ps, n, F) ==
    /\ t \in Seq(Section) /\ n <= Len(t)
    /\ \A i, j \in 1..Len(t) : t[i].id = t[j].id => i = j \/ Clash(ps, t[i].id)
    /\ \A i \in 1..n : /\ t[i].id \in {ModelId[ps[i].model], ps[i].name}
                       /\ t[i].model = ps[i].model /\ t[i].value = ps[i].value
    /\ \A i \in (n + 1)..Len(t) : t[i].model \in F /\ t[i].id = ModelId[t[i].model]

\* A section is appended.
LEMMA Appended ==
    ASSUME NEW S, NEW t \in Seq(S), NEW e \in S
    PROVE  /\ Append(t, e) \in Seq(S) /\ Len(Append(t, e)) = Len(t) + 1
           /\ \A i \in 1..Len(t) : Append(t, e)[i] = t[i]
           /\ Append(t, e)[Len(t) + 1] = e
OBVIOUS

LEMMA IdsAre ==
    ASSUME NEW t \in Seq(Section)
    PROVE  \A x : x \in Ids(t) <=> \E i \in 1..Len(t) : t[i].id = x
BY DEF Ids

\* A preset gets a section, under the id of its model or its own name.
LEMMA PresetAdded ==
    ASSUME NEW ps \in Seq(Preset), NamesAreUnique(ps), NEW n \in 1..Len(ps), NEW F,
           NEW t, Tabled(t, ps, n - 1, F), Len(t) = n - 1
    PROVE  Tabled(WithPreset(t, ps[n]), ps, n, F) /\ Len(WithPreset(t, ps[n])) = n
<1>. DEFINE p == ps[n]
            e == [id |-> SectionId(t, p), model |-> p.model, value |-> p.value]
            u == WithPreset(t, p)
<1>1. p \in Preset /\ p.name \in Names /\ p.model \in Models
    <2>1. \A i \in 1..Len(ps) : ps[i] \in Preset OBVIOUS
    <2>2. \A x \in Preset : x.name \in Names /\ x.model \in Models BY DEF Preset
    <2>. QED BY <2>1, <2>2
<1>2. t \in Seq(Section) BY DEF Tabled
<1>3. e \in Section /\ e.id \in {ModelId[p.model], p.name} /\ e.model = p.model /\ e.value = p.value
    <2>1. SectionId(t, p) \in {ModelId[p.model], p.name} BY DEF SectionId
    <2>2. ModelId[p.model] \in SectionNames /\ p.name \in SectionNames BY <1>1 DEF SectionNames
    <2>3. p.value \in Values \union {Unset} BY <1>1 DEF Preset
    <2>. QED BY <1>1, <2>1, <2>2, <2>3 DEF Section
<1>4. \A i \in 1..(n - 1) : t[i].id = e.id => Clash(ps, e.id)
    <2>1. CASE ModelId[p.model] \notin Ids(t)
        BY <1>2, <2>1, IdsAre DEF SectionId
    <2>2. CASE ModelId[p.model] \in Ids(t)
        <3>1. e.id = p.name BY <2>2 DEF SectionId
        <3>2. ASSUME NEW i \in 1..(n - 1), t[i].id = p.name PROVE Clash(ps, p.name)
            <4>1. t[i].id \in {ModelId[ps[i].model], ps[i].name} BY DEF Tabled
            <4>2. i \in DOMAIN ps /\ n \in DOMAIN ps /\ i # n /\ i < n OBVIOUS
            <4>3. ps[i].name # p.name BY <4>2 DEF NamesAreUnique
            <4>. QED BY <3>2, <4>1, <4>2, <4>3 DEF Clash
        <3>. QED BY <3>1, <3>2
    <2>. QED BY <2>1, <2>2
<1>. HIDE DEF e
<1>5. u = Append(t, e) BY DEF WithPreset, e
<1>6. /\ u \in Seq(Section) /\ Len(u) = n
      /\ \A i \in 1..(n - 1) : u[i] = t[i]
      /\ u[n] = e
    BY <1>2, <1>3, <1>5, Appended
<1>. HIDE DEF u
<1>7. \A i, j \in 1..Len(u) : u[i].id = u[j].id => i = j \/ Clash(ps, u[i].id)
    <2>1. \A i, j \in 1..(n - 1) : t[i].id = t[j].id => i = j \/ Clash(ps, t[i].id) BY DEF Tabled
    <2>. QED BY <1>4, <1>6, <2>1
<1>8. \A i \in 1..n : /\ u[i].id \in {ModelId[ps[i].model], ps[i].name}
                      /\ u[i].model = ps[i].model /\ u[i].value = ps[i].value
    <2>1. \A i \in 1..(n - 1) : /\ t[i].id \in {ModelId[ps[i].model], ps[i].name}
                                /\ t[i].model = ps[i].model /\ t[i].value = ps[i].value
        BY DEF Tabled
    <2>. QED BY <1>3, <1>6, <2>1
<1>9. \A i \in (n + 1)..Len(u) : FALSE BY <1>6
<1>10. Tabled(u, ps, n, F) BY <1>6, <1>7, <1>8, <1>9 DEF Tabled
<1>. QED BY <1>6, <1>10 DEF u

\* A file gets one if no section has the id of its model.
LEMMA FileAdded ==
    ASSUME NEW ps, NEW n \in Nat, NEW F \in SUBSET Loose, NEW t, Tabled(t, ps, n, F), NEW f \in F
    PROVE  LET u == WithFile(t, f) IN Tabled(u, ps, n, F) /\ Ids(t) \subseteq Ids(u) /\ ModelId[f] \in Ids(u)
<1>. DEFINE u == WithFile(t, f)
            e == [id |-> ModelId[f], model |-> f, value |-> Unset]
<1>1. CASE ModelId[f] \in Ids(t)
    <2>1. u = t BY <1>1 DEF WithFile
    <2>. QED BY <1>1, <2>1
<1>2. CASE ModelId[f] \notin Ids(t)
    <2>1. e \in Section /\ e.id = ModelId[f] /\ e.model = f
        <3>1. f \in Models \union Loose /\ ModelId[f] \in SectionNames BY DEF SectionNames
        <3>. QED BY <3>1 DEF Section
    <2>2. t \in Seq(Section) BY DEF Tabled
    <2>3. u = Append(t, e) BY <1>2 DEF WithFile
    <2>. HIDE DEF e, u
    <2>4. /\ u \in Seq(Section) /\ Len(u) = Len(t) + 1 /\ Len(t) \in Nat
          /\ \A i \in 1..Len(t) : u[i] = t[i]
          /\ u[Len(t) + 1] = e
        BY <2>1, <2>2, <2>3, Appended
    <2>5. \A i \in 1..Len(t) : t[i].id # ModelId[f] BY <1>2, <2>2, IdsAre
    <2>6. \A i, j \in 1..Len(u) : u[i].id = u[j].id => i = j \/ Clash(ps, u[i].id)
        <3>1. \A i, j \in 1..Len(t) : t[i].id = t[j].id => i = j \/ Clash(ps, t[i].id) BY DEF Tabled
        <3>. QED BY <2>1, <2>4, <2>5, <3>1
    <2>7. n <= Len(t) BY DEF Tabled
    <2>8. \A i \in 1..n : /\ u[i].id \in {ModelId[ps[i].model], ps[i].name}
                          /\ u[i].model = ps[i].model /\ u[i].value = ps[i].value
        <3>1. \A i \in 1..n : u[i] = t[i] BY <2>4, <2>7
        <3>. QED BY <3>1 DEF Tabled
    <2>9. \A i \in (n + 1)..Len(u) : u[i].model \in F /\ u[i].id = ModelId[u[i].model]
        <3>1. \A i \in (n + 1)..Len(t) : t[i].model \in F /\ t[i].id = ModelId[t[i].model] BY DEF Tabled
        <3>. QED BY <2>1, <2>4, <3>1
    <2>10. Tabled(u, ps, n, F) BY <2>4, <2>6, <2>7, <2>8, <2>9 DEF Tabled
    <2>11. ModelId[f] \in Ids(u) BY <2>1, <2>4, IdsAre
    <2>12. Ids(t) \subseteq Ids(u)
        <3>1. ASSUME NEW x \in Ids(t) PROVE x \in Ids(u)
            <4>1. PICK i \in 1..Len(t) : t[i].id = x BY <2>2, IdsAre
            <4>2. i \in 1..Len(u) /\ u[i].id = x BY <2>4, <4>1
            <4>. QED BY <2>4, <4>2, IdsAre
        <3>. QED BY <3>1
    <2>. QED BY <2>10, <2>11, <2>12 DEF u
<1>. QED BY <1>1, <1>2

\* The files of a directory, in some order.
LEMMA FilesInOrder ==
    ASSUME NEW F, IsFiniteSet(F)
    PROVE  /\ Cardinality(F) \in Nat
           /\ DOMAIN SetToSeq(F) = 1..Cardinality(F)
           /\ \A i \in 1..Cardinality(F) : SetToSeq(F)[i] \in F
           /\ \A f \in F : \E i \in 1..Cardinality(F) : SetToSeq(F)[i] = f
<1>1. PICK c : c = Cardinality(F) OBVIOUS
<1>2. c \in Nat /\ ExistsBijection(1..c, F) BY <1>1, FS_CardinalityType
<1>3. PICK g \in Bijection(1..c, F) : TRUE BY <1>2 DEF ExistsBijection
<1>4. g \in [1..c -> F] /\ IsInjective(g) BY <1>3 DEF Bijection, Injection
<1>5. SetToSeq(F) \in [1..c -> F] /\ IsInjective(SetToSeq(F)) BY <1>1, <1>4 DEF SetToSeq
<1>6. PICK q : q = SetToSeq(F) OBVIOUS
<1>7. q \in Injection(1..c, F) BY <1>5, <1>6 DEF Injection
<1>8. PICK D : D = 1..c OBVIOUS
<1>9. q \in Injection(D, F) BY <1>7, <1>8
<1>10. Cardinality(D) = Cardinality(F)
    <2>1. Cardinality(1..c) = c BY <1>2, FS_Interval
    <2>. QED BY <1>1, <1>8, <2>1
<1>11. q \in Surjection(D, F) BY <1>9, <1>10, FS_Injection
<1>12. \A f \in F : \E i \in D : q[i] = f BY <1>11 DEF Surjection
<1>. QED BY <1>1, <1>2, <1>5, <1>6, <1>8, <1>12

\* render_ini(): the sections are the presets' and the other files'.
LEMMA SectionsAre ==
    ASSUME NEW ps \in Seq(Preset), NamesAreUnique(ps), NEW star, NEW F \in SUBSET Loose, IsFiniteSet(F)
    PROVE  LET t == Rendered(ps, star, F).sections IN 
           Tabled(t, ps, Len(ps), F) /\ \A f \in F : ModelId[f] \in Ids(t)
<1>. DEFINE at(i) == After("preset", <<>>, ps, i)
            T == {i \in 0..Len(ps) : Tabled(at(i), ps, i, F) /\ Len(at(i)) = i}
<1>1. Len(ps) \in Nat /\ DOMAIN ps = 1..Len(ps) OBVIOUS
<1>2. 0 \in T
    <2>1. at(0) = <<>> BY <1>1, AfterNone
    <2>2. Tabled(<<>>, ps, 0, F) /\ Len(<<>>) = 0 BY DEF Tabled
    <2>3. 0 \in 0..Len(ps) BY <1>1
    <2>. HIDE DEF at
    <2>. QED BY <2>1, <2>2, <2>3
<1>3. ASSUME NEW i \in 0..(Len(ps) - 1), i \in T PROVE i + 1 \in T
    <2>1. PICK j : j = i + 1 OBVIOUS
    <2>2. j \in 1..Len(ps) /\ j - 1 = i BY <1>1, <2>1
    <2>3. at(j) = Step("preset", at(j - 1), ps[j]) BY <1>1, <2>2, AfterOneMore
    <2>4. at(j) = WithPreset(at(j - 1), ps[j]) BY <2>3 DEF Step
    <2>5. Tabled(at(j - 1), ps, j - 1, F) /\ Len(at(j - 1)) = j - 1 BY <1>3, <2>2
    <2>. HIDE DEF at
    <2>6. Tabled(at(j), ps, j, F) /\ Len(at(j)) = j BY <2>2, <2>4, <2>5, PresetAdded
    <2>. QED BY <2>1, <2>2, <2>6
<1>4. \A i \in 0..Len(ps) : i \in T
    <2>. HIDE DEF T
    <2>. QED BY <1>1, <1>2, <1>3, Reached
<1>5. PICK b : b = FoldLeft(WithPreset, <<>>, ps) OBVIOUS
<1>6. Tabled(b, ps, Len(ps), F)
    <2>1. b = at(Len(ps)) BY <1>1, <1>5, FoldOfPresets
    <2>. QED BY <1>1, <1>4, <2>1
<1>7. PICK q : q = SetToSeq(F) OBVIOUS
<1>8. PICK c : c = Cardinality(F) OBVIOUS
<1>9. /\ c \in Nat /\ DOMAIN q = 1..c /\ \A i \in 1..c : q[i] \in F
      /\ \A f \in F : \E i \in 1..c : q[i] = f
    BY <1>7, <1>8, FilesInOrder
<1>. DEFINE then(i) == After("file", b, q, i)
            R == {i \in 0..c : Tabled(then(i), ps, Len(ps), F) /\ \A j \in 1..i : ModelId[q[j]] \in Ids(then(i))}
<1>10. 0 \in R
    <2>1. then(0) = b BY <1>9, AfterNone
    <2>2. 0 \in 0..c BY <1>9
    <2>. HIDE DEF then
    <2>. QED BY <1>6, <2>1, <2>2
<1>11. ASSUME NEW i \in 0..(c - 1), i \in R PROVE i + 1 \in R
    <2>1. PICK j : j = i + 1 OBVIOUS
    <2>2. j \in 1..c /\ j - 1 = i BY <1>9, <2>1
    <2>3. then(j) = Step("file", then(j - 1), q[j])
        <3>1. c \in Nat /\ DOMAIN q = 1..c BY <1>9
        <3>. QED BY <2>2, <3>1, AfterOneMore
    <2>4. then(j) = WithFile(then(j - 1), q[j]) BY <2>3 DEF Step
    <2>5. Tabled(then(i), ps, Len(ps), F) /\ \A k \in 1..i : ModelId[q[k]] \in Ids(then(i)) BY <1>11
    <2>6. q[j] \in F BY <1>9, <2>2
    <2>. HIDE DEF then
    <2>7. Tabled(then(j), ps, Len(ps), F) /\ Ids(then(i)) \subseteq Ids(then(j)) /\ ModelId[q[j]] \in Ids(then(j))
        BY <1>1, <2>2, <2>4, <2>5, <2>6, FileAdded
    <2>8. \A k \in 1..j : ModelId[q[k]] \in Ids(then(j))
        <3>1. \A k \in 1..j : k \in 1..i \/ k = j BY <2>1, <2>2
        <3>. QED BY <2>5, <2>7, <3>1
    <2>9. j \in 0..c BY <2>2
    <2>. QED BY <2>1, <2>7, <2>8, <2>9
<1>12. \A i \in 0..c : i \in R
    <2>. HIDE DEF R
    <2>. QED BY <1>9, <1>10, <1>11, Reached
<1>13. PICK t : t = FoldLeft(WithFile, b, q) OBVIOUS
<1>14. Tabled(t, ps, Len(ps), F) /\ \A j \in 1..c : ModelId[q[j]] \in Ids(t)
    <2>1. t = then(c) BY <1>9, <1>13, FoldOfFiles
    <2>. QED BY <1>9, <1>12, <2>1
<1>15. \A f \in F : ModelId[f] \in Ids(t) BY <1>9, <1>14
<1>16. Rendered(ps, star, F).sections = t BY <1>5, <1>7, <1>13 DEF Rendered
<1>. QED BY <1>14, <1>15, <1>16

\* A section that shares its name with no other is what the router makes of it.
LEMMA KeyIs ==
    ASSUME NEW t \in Seq(Section), NEW i \in 1..Len(t), \A j \in 1..Len(t) : t[j].id = t[i].id => j = i,
           NEW field
    PROVE  Key(t, t[i].id, field) = t[i][field]
<1>. DEFINE at == {j \in DOMAIN t : t[j].id = t[i].id /\ t[j][field] # Unset}
<1>1. DOMAIN t = 1..Len(t) /\ i \in Nat OBVIOUS
<1>2. \A j \in at : j = i BY <1>1
<1>3. Key(t, t[i].id, field) =
        IF at = {} THEN Unset ELSE t[CHOOSE j \in at : \A k \in at : k <= j][field] BY DEF Key
<1>4. CASE at = {}
    <2>1. t[i][field] = Unset BY <1>1, <1>4
    <2>. HIDE DEF at
    <2>. QED BY <1>3, <1>4, <2>1
<1>5. CASE at # {}
    <2>1. i \in at /\ \A k \in at : k <= i BY <1>1, <1>2, <1>5
    <2>. HIDE DEF at
    <2>2. (CHOOSE j \in at : \A k \in at : k <= j) \in at BY <2>1
    <2>. QED BY <1>2, <1>3, <1>5, <2>2
<1>. QED BY <1>4, <1>5

LEMMA ServedIs ==
    ASSUME NEW file, file.sections \in Seq(Section), NEW i \in 1..Len(file.sections),
           \A j \in 1..Len(file.sections) : file.sections[j].id = file.sections[i].id => j = i
    PROVE  LET own == file.sections[i] IN
           Served(file, own.id) = [model |-> own.model,
                                   value |-> IF own.value # Unset THEN own.value ELSE file.star]
<1>1. PICK t : t = file.sections OBVIOUS
<1>2. t \in Seq(Section) /\ i \in 1..Len(t) /\ \A j \in 1..Len(t) : t[j].id = t[i].id => j = i BY <1>1
<1>3. Key(t, t[i].id, "model") = t[i]["model"] BY <1>2, KeyIs
<1>4. Key(t, t[i].id, "value") = t[i]["value"] BY <1>2, KeyIs
<1>. QED BY <1>1, <1>3, <1>4 DEF Served, Own

-----------------------------------------------------------------------------
(* The presets and the file: the inductive invariant.  The file is what the *)
(* presets, the router's setting and the directory were rendered to, unless *)
(* a file was dropped since then.                                           *)

RouterInv ==
    /\ presets \in Seq(Preset) /\ NamesAreUnique(presets)
    /\ default \in Values \union {Unset}
    /\ dropped \in SUBSET Loose /\ IsFiniteSet(dropped)
    /\ rendered => ini = Rendered(presets, default, dropped)

LEMMA RouterInitSound == RouterInit => RouterInv
<1>. SUFFICES ASSUME RouterInit PROVE RouterInv OBVIOUS
<1>1. presets \in Seq(Preset) /\ NamesAreUnique(presets) BY DEF RouterInit, NamesAreUnique
<1>2. dropped \in SUBSET Loose /\ IsFiniteSet(dropped) BY FS_EmptySet DEF RouterInit
<1>. QED BY <1>1, <1>2 DEF RouterInit, RouterInv

\* Presets that are put, or taken away, keep names of their own.
LEMMA PresetIsPut ==
    ASSUME NEW ps \in Seq(Preset), NamesAreUnique(ps), NEW p \in Preset
    PROVE  LET at == {i \in DOMAIN ps : ps[i].name = p.name}
               qs == IF at = {} THEN Append(ps, p) ELSE [i \in DOMAIN ps |-> IF i \in at THEN p ELSE ps[i]]
           IN  qs \in Seq(Preset) /\ NamesAreUnique(qs)
<1>. DEFINE at == {i \in DOMAIN ps : ps[i].name = p.name}
            new == [i \in DOMAIN ps |-> IF i \in at THEN p ELSE ps[i]]
            qs == IF at = {} THEN Append(ps, p) ELSE new
<1>1. DOMAIN ps = 1..Len(ps) /\ Len(ps) \in Nat /\ \A i \in 1..Len(ps) : ps[i] \in Preset OBVIOUS
<1>2. CASE at = {}
    <2>1. qs = Append(ps, p) BY <1>2
    <2>2. \A i \in 1..Len(ps) : ps[i].name # p.name BY <1>1, <1>2
    <2>. HIDE DEF qs
    <2>3. /\ qs \in Seq(Preset) /\ Len(qs) = Len(ps) + 1
          /\ \A i \in 1..Len(ps) : qs[i] = ps[i]
          /\ qs[Len(ps) + 1] = p
        BY <2>1, Appended
    <2>4. DOMAIN qs = 1..Len(qs) BY <2>3
    <2>5. NamesAreUnique(qs) BY <1>1, <2>2, <2>3, <2>4 DEF NamesAreUnique
    <2>. QED BY <2>3, <2>5 DEF qs
<1>3. CASE at # {}
    <2>1. qs = new BY <1>3
    <2>2. new \in Seq(Preset)
        <3>1. \A i \in 1..Len(ps) : new[i] \in Preset BY <1>1
        <3>2. new = [i \in 1..Len(ps) |-> new[i]] BY <1>1
        <3>. HIDE DEF new
        <3>. QED BY <1>1, <3>1, <3>2
    <2>3. \A i \in DOMAIN ps : new[i].name = ps[i].name OBVIOUS
    <2>4. DOMAIN new = DOMAIN ps OBVIOUS
    <2>. HIDE DEF new, qs
    <2>5. NamesAreUnique(new) BY <2>3, <2>4 DEF NamesAreUnique
    <2>. QED BY <2>1, <2>2, <2>5 DEF qs, new
<1>. QED BY <1>2, <1>3

LEMMA PresetIsTaken ==
    ASSUME NEW ps \in Seq(Preset), NamesAreUnique(ps), NEW i \in DOMAIN ps
    PROVE  RemoveAt(ps, i) \in Seq(Preset) /\ NamesAreUnique(RemoveAt(ps, i))
<1>1. DOMAIN ps = 1..Len(ps) /\ Len(ps) \in Nat /\ \A j \in 1..Len(ps) : ps[j] \in Preset OBVIOUS
<1>2. i \in 1..Len(ps) BY <1>1
<1>3. PICK a : a = SubSeq(ps, 1, i - 1) OBVIOUS
<1>4. PICK b : b = SubSeq(ps, i + 1, Len(ps)) OBVIOUS
<1>5. a \in Seq(Preset) /\ Len(a) = i - 1 /\ \A j \in 1..(i - 1) : a[j] = ps[j]
    BY <1>1, <1>2, <1>3
<1>6. b \in Seq(Preset) /\ Len(b) = Len(ps) - i /\ \A j \in 1..(Len(ps) - i) : b[j] = ps[j + i]
    BY <1>1, <1>2, <1>4
<1>7. PICK q : q = RemoveAt(ps, i) OBVIOUS
<1>8. q = a \o b BY <1>3, <1>4, <1>7 DEF RemoveAt
<1>9. /\ q \in Seq(Preset) /\ Len(q) = Len(a) + Len(b)
      /\ \A j \in 1..(Len(a) + Len(b)) : q[j] = IF j <= Len(a) THEN a[j] ELSE b[j - Len(a)]
    BY <1>5, <1>6, <1>8, ConcatProperties
<1>10. Len(q) = Len(ps) - 1 /\ DOMAIN q = 1..Len(q) BY <1>1, <1>2, <1>5, <1>6, <1>9
<1>11. ASSUME NEW j \in 1..Len(q) PROVE q[j] = ps[IF j < i THEN j ELSE j + 1]
    <2>1. q[j] = IF j <= i - 1 THEN a[j] ELSE b[j - (i - 1)] BY <1>5, <1>9
    <2>2. CASE j < i BY <1>2, <1>5, <2>1, <2>2
    <2>3. CASE ~(j < i)
        <3>1. j - (i - 1) \in 1..(Len(ps) - i) BY <1>1, <1>2, <1>10, <2>3
        <3>2. b[j - (i - 1)] = ps[j - (i - 1) + i] BY <1>6, <3>1
        <3>3. j - (i - 1) + i = j + 1 BY <1>2
        <3>. QED BY <1>2, <2>1, <2>3, <3>2, <3>3
    <2>. QED BY <2>2, <2>3
<1>12. NamesAreUnique(q)
    <2>1. ASSUME NEW j \in 1..Len(q), NEW k \in 1..Len(q), q[j].name = q[k].name PROVE j = k
        <3>. DEFINE old(x) == IF x < i THEN x ELSE x + 1
        <3>1. old(j) \in DOMAIN ps /\ old(k) \in DOMAIN ps BY <1>1, <1>2, <1>10
        <3>2. q[j] = ps[old(j)] /\ q[k] = ps[old(k)] BY <1>11
        <3>3. old(j) = old(k)
            <4>. HIDE DEF old
            <4>. QED BY <2>1, <3>1, <3>2 DEF NamesAreUnique
        <3>. QED BY <1>2, <1>10, <3>3
    <2>. QED BY <1>10, <2>1 DEF NamesAreUnique
<1>. QED BY <1>7, <1>9, <1>12

LEMMA RouterStep == RouterInv /\ [RouterNext]_routerVars => RouterInv'
<1>. SUFFICES ASSUME RouterInv, [RouterNext]_routerVars PROVE RouterInv' OBVIOUS
<1>1. ASSUME NEW ps, NEW star, Saved(ps, star), ps \in Seq(Preset), NamesAreUnique(ps),
             star \in Values \union {Unset}
      PROVE  RouterInv'
    <2>1. presets' = ps /\ default' = star /\ dropped' = dropped /\ ini' = Rendered(ps, star, dropped)
        BY <1>1 DEF Saved
    <2>2. presets' \in Seq(Preset) /\ NamesAreUnique(presets)' BY <1>1, <2>1
    <2>. QED BY <1>1, <2>1, <2>2 DEF RouterInv
<1>2. CASE PutPreset
    <2>1. PICK p \in Preset :
            LET at == {i \in DOMAIN presets : presets[i].name = p.name} IN
            Saved(IF at = {} THEN Append(presets, p)
                  ELSE [i \in DOMAIN presets |-> IF i \in at THEN p ELSE presets[i]], default)
        BY <1>2 DEF PutPreset
    <2>2. PICK qs : qs = LET at == {i \in DOMAIN presets : presets[i].name = p.name} IN
                         IF at = {} THEN Append(presets, p)
                         ELSE [i \in DOMAIN presets |-> IF i \in at THEN p ELSE presets[i]]
        OBVIOUS
    <2>3. qs \in Seq(Preset) /\ NamesAreUnique(qs) BY <2>2, PresetIsPut DEF RouterInv
    <2>4. Saved(qs, default) BY <2>1, <2>2
    <2>5. default \in Values \union {Unset} BY DEF RouterInv
    <2>. QED BY <1>1, <2>3, <2>4, <2>5
<1>3. CASE DeletePreset
    <2>1. PICK i \in DOMAIN presets : Saved(RemoveAt(presets, i), default) BY <1>3 DEF DeletePreset
    <2>2. PICK qs : qs = RemoveAt(presets, i) OBVIOUS
    <2>3. qs \in Seq(Preset) /\ NamesAreUnique(qs) BY <2>2, PresetIsTaken DEF RouterInv
    <2>4. Saved(qs, default) BY <2>1, <2>2
    <2>. QED BY <1>1, <2>3, <2>4 DEF RouterInv
<1>4. CASE PutRouter
    <2>1. PICK star \in Values \union {Unset} : Saved(presets, star) BY <1>4 DEF PutRouter
    <2>. QED BY <1>1, <2>1 DEF RouterInv
<1>5. CASE FileDropped
    <2>1. PICK f \in Loose : dropped' = dropped \union {f} BY <1>5 DEF FileDropped
    <2>2. presets' = presets /\ default' = default /\ ~rendered' BY <1>5 DEF FileDropped
    <2>3. dropped' \in SUBSET Loose /\ IsFiniteSet(dropped') BY <2>1, FS_AddElement DEF RouterInv
    <2>4. NamesAreUnique(presets)' BY <2>2 DEF RouterInv
    <2>. QED BY <2>2, <2>3, <2>4 DEF RouterInv
<1>6. CASE IniWritten \/ RouterReads \/ RouterStops \/ UNCHANGED routerVars
    <2>1. /\ presets' = presets /\ default' = default /\ dropped' = dropped
          /\ \/ ini' = Rendered(presets, default, dropped)
             \/ ini' = ini /\ rendered' = rendered
        BY <1>6 DEF IniWritten, RouterReads, RouterStops, routerVars
    <2>2. NamesAreUnique(presets)' BY <2>1 DEF RouterInv
    <2>. QED BY <2>1, <2>2 DEF RouterInv
<1>. QED BY <1>2, <1>3, <1>4, <1>5, <1>6 DEF RouterNext

\* The file that was rendered: the sections of the presets, in their order, and
\* those of the files that have none.
LEMMA FileIsTable ==
    ASSUME RouterInv, rendered
    PROVE  /\ ini.star = default /\ Tabled(ini.sections, presets, Len(presets), dropped)
           /\ \A f \in dropped : ModelId[f] \in Ids(ini.sections)
<1>1. ini = Rendered(presets, default, dropped) BY DEF RouterInv
<1>2. LET t == Rendered(presets, default, dropped).sections IN
      Tabled(t, presets, Len(presets), dropped) /\ \A f \in dropped : ModelId[f] \in Ids(t)
    BY SectionsAre DEF RouterInv
<1>3. ini.star = default BY <1>1 DEF Rendered
<1>. QED BY <1>1, <1>2, <1>3

\* A preset finds its section where no other has that name.
LEMMA TableServes == RouterInv /\ rendered => PresetsAreNamed
<1>. SUFFICES ASSUME RouterInv, rendered, NamesApart PROVE PresetsAreNamed BY DEF PresetsAreNamed
<1>1. PICK t : t = ini.sections OBVIOUS
<1>2. PICK n : n = Len(presets) OBVIOUS
<1>3. presets \in Seq(Preset) /\ n \in Nat /\ DOMAIN presets = 1..n BY <1>2 DEF RouterInv
<1>4. Tabled(t, presets, n, dropped) /\ ini.star = default BY <1>1, <1>2, FileIsTable
<1>5. \A x : ~Clash(presets, x) BY DEF NamesApart, Clash
<1>6. /\ t \in Seq(Section) /\ n <= Len(t)
      /\ \A i, j \in 1..Len(t) : t[i].id = t[j].id => i = j
    BY <1>4, <1>5 DEF Tabled
<1>. DEFINE id == [i \in 1..n |-> t[i].id]
            live == router.ini
            all == Ids(router.ini.sections)
<1>7. id \in [DOMAIN presets -> Ids(ini.sections)]
    <2>1. \A i \in 1..n : t[i].id \in Ids(t)
        <3>1. \A i \in 1..n : i \in 1..Len(t) BY <1>3, <1>6
        <3>. QED BY <1>6, <3>1, IdsAre
    <2>. QED BY <1>1, <1>3, <2>1
<1>8. IsInjective(id) BY <1>3, <1>6 DEF IsInjective
<1>9. ASSUME NEW i \in 1..n PROVE Served(ini, id[i]) = [model |-> presets[i].model, value |-> Mine(i)]
    <2>1. i \in 1..Len(t) BY <1>3, <1>6
    <2>2. Served(ini, t[i].id) = [model |-> t[i].model,
                                  value |-> IF t[i].value # Unset THEN t[i].value ELSE ini.star]
        BY <1>1, <1>6, <2>1, ServedIs
    <2>3. t[i].model = presets[i].model /\ t[i].value = presets[i].value BY <1>4 DEF Tabled
    <2>. QED BY <1>4, <2>2, <2>3 DEF Mine
<1>10. ASSUME NEW i \in 1..n, router.up, all # {}, NEW told \in SUBSET all, Drifted(ini, live, all, told) = {}
       PROVE  id[i] \in all /\ (id[i] \in told /\ Mine(i) # Unset => Served(live, id[i]) = Served(ini, id[i]))
    <2>1. PICK x : x = id[i] OBVIOUS
    <2>2. x \in Ids(ini.sections) BY <1>3, <1>7, <2>1
    <2>3. x \in all /\ (x \in told => ~Differs(ini, live, x))
        <3>. HIDE DEF id, live, all
        <3>. QED BY <1>10, <2>2 DEF Drifted
    <2>4. ASSUME x \in told, Mine(i) # Unset PROVE Served(live, x) = Served(ini, x)
        <3>1. Served(ini, x).value = Mine(i)
            <4>1. PICK v : v = Mine(i) OBVIOUS
            <4>2. Served(ini, x) = [model |-> presets[i].model, value |-> v] BY <1>9, <2>1, <4>1
            <4>. QED BY <4>1, <4>2
        <3>2. /\ Served(ini, x).model = Served(live, x).model
              /\ Served(ini, x).value = Served(live, x).value
            BY <2>3, <2>4, <3>1 DEF Differs
        <3>. QED BY <3>2 DEF Served
    <2>. QED BY <2>1, <2>3, <2>4
<1>. HIDE DEF id
<1>. QED BY <1>3, <1>7, <1>8, <1>9, <1>10 DEF PresetsAreNamed

\* So does a file, or one that has the same id.
LEMMA TableFinds == RouterInv /\ rendered => FilesAreFound
<1>. DEFINE Has == dropped \union {presets[i].model : i \in DOMAIN presets}
            IsNamed(x) == \E i \in DOMAIN presets : presets[i].name = x
<1>. SUFFICES ASSUME RouterInv, rendered, NEW f \in dropped, ~IsNamed(ModelId[f])
              PROVE  /\ ModelId[f] \in Ids(ini.sections)
                     /\ \E g \in Has : ModelId[g] = ModelId[f] /\ Served(ini, ModelId[f]).model = g
    <2>1. RouterInv /\ rendered => \A f \in dropped : ModelId[f] \in Ids(ini.sections) BY FileIsTable
    <2>. QED BY <2>1 DEF FilesAreFound
<1>1. PICK t : t = ini.sections OBVIOUS
<1>2. PICK n : n = Len(presets) OBVIOUS
<1>3. presets \in Seq(Preset) /\ n \in Nat /\ DOMAIN presets = 1..n BY <1>2 DEF RouterInv
<1>4. Tabled(t, presets, n, dropped) /\ ModelId[f] \in Ids(t) BY <1>1, <1>2, FileIsTable
<1>5. PICK x : x = ModelId[f] OBVIOUS
<1>6. ~Clash(presets, x) BY <1>5 DEF Clash
<1>7. t \in Seq(Section) /\ n <= Len(t) BY <1>4 DEF Tabled
<1>8. PICK i \in 1..Len(t) : t[i].id = x BY <1>4, <1>5, <1>7, IdsAre
<1>9. \A j \in 1..Len(t) : t[j].id = t[i].id => j = i BY <1>4, <1>6, <1>8 DEF Tabled
<1>10. Served(ini, x).model = t[i].model
    <2>1. Served(ini, t[i].id) = [model |-> t[i].model,
                                  value |-> IF t[i].value # Unset THEN t[i].value ELSE ini.star]
        BY <1>1, <1>7, <1>9, ServedIs
    <2>. QED BY <1>8, <2>1
<1>11. t[i].model \in Has /\ ModelId[t[i].model] = x
    <2>1. CASE i \in 1..n
        <3>1. t[i].id \in {ModelId[presets[i].model], presets[i].name} /\ t[i].model = presets[i].model
            BY <1>4, <2>1 DEF Tabled
        <3>2. presets[i].name # x BY <1>3, <1>5, <2>1
        <3>. QED BY <1>3, <1>8, <2>1, <3>1, <3>2
    <2>2. CASE i \notin 1..n
        <3>1. i \in (n + 1)..Len(t) BY <1>3, <1>7, <2>2
        <3>2. t[i].model \in dropped /\ t[i].id = ModelId[t[i].model] BY <1>4, <3>1 DEF Tabled
        <3>. QED BY <1>8, <3>2
    <2>. QED BY <2>1, <2>2
<1>. QED BY <1>1, <1>4, <1>5, <1>10, <1>11

\* Whatever the file was, it was sections, and so is what the router has read.
FilesAreSections ==
    /\ ini \in [star : Values \union {Unset}, sections : Seq(Section)]
    /\ router \in [up : BOOLEAN, ini : [star : Values \union {Unset}, sections : Seq(Section)]]
    /\ rendered \in BOOLEAN

LEMMA FileIsSections ==
    ASSUME NEW ps \in Seq(Preset), NamesAreUnique(ps), NEW star \in Values \union {Unset},
           NEW F \in SUBSET Loose, IsFiniteSet(F)
    PROVE  Rendered(ps, star, F) \in [star : Values \union {Unset}, sections : Seq(Section)]
<1>1. Rendered(ps, star, F).sections \in Seq(Section) BY SectionsAre DEF Tabled
<1>2. PICK t : t = FoldLeft(WithFile, FoldLeft(WithPreset, <<>>, ps), SetToSeq(F)) OBVIOUS
<1>3. Rendered(ps, star, F) = [star |-> star, sections |-> t] BY <1>2 DEF Rendered
<1>. QED BY <1>1, <1>3

LEMMA FilesAtFirst == RouterInit => FilesAreSections
<1>. SUFFICES ASSUME RouterInit PROVE FilesAreSections OBVIOUS
<1>1. <<>> \in Seq(Preset) /\ NamesAreUnique(<<>>) BY DEF NamesAreUnique
<1>2. IsFiniteSet({}) BY FS_EmptySet
<1>3. ini \in [star : Values \union {Unset}, sections : Seq(Section)]
    BY <1>1, <1>2, FileIsSections DEF RouterInit
<1>4. Off \in [up : BOOLEAN, ini : [star : Values \union {Unset}, sections : Seq(Section)]] BY DEF Off, EmptyIni
<1>. QED BY <1>3, <1>4 DEF RouterInit, FilesAreSections

LEMMA FilesStaySections ==
    RouterInv /\ RouterInv' /\ FilesAreSections /\ [RouterNext]_routerVars => FilesAreSections'
<1>. SUFFICES ASSUME RouterInv, RouterInv', FilesAreSections, [RouterNext]_routerVars PROVE FilesAreSections'
    OBVIOUS
<1>1. ASSUME ini' = Rendered(presets', default', dropped'), rendered', UNCHANGED router PROVE FilesAreSections'
    <2>1. /\ presets' \in Seq(Preset) /\ NamesAreUnique(presets') /\ default' \in Values \union {Unset}
          /\ dropped' \in SUBSET Loose /\ IsFiniteSet(dropped')
        BY DEF RouterInv, NamesAreUnique
    <2>2. ini' \in [star : Values \union {Unset}, sections : Seq(Section)] BY <1>1, <2>1, FileIsSections
    <2>. QED BY <1>1, <2>2 DEF FilesAreSections
<1>2. ASSUME NEW ps, NEW star, Saved(ps, star) PROVE FilesAreSections' BY <1>1, <1>2 DEF Saved
<1>3. CASE PutPreset \/ DeletePreset \/ PutRouter BY <1>2, <1>3 DEF PutPreset, DeletePreset, PutRouter
<1>4. CASE IniWritten BY <1>1, <1>4 DEF IniWritten
<1>5. CASE FileDropped \/ UNCHANGED routerVars BY <1>5 DEF FileDropped, routerVars, FilesAreSections
<1>6. CASE RouterReads BY <1>6 DEF RouterReads, FilesAreSections
<1>7. CASE RouterStops
    <2>1. Off \in [up : BOOLEAN, ini : [star : Values \union {Unset}, sections : Seq(Section)]] BY DEF Off, EmptyIni
    <2>. QED BY <1>7, <2>1 DEF RouterStops, FilesAreSections
<1>. QED BY <1>3, <1>4, <1>5, <1>6, <1>7 DEF RouterNext

LEMMA RouterIsTyped == RouterInv /\ FilesAreSections => RouterTypeOK
<1>. SUFFICES ASSUME RouterInv, FilesAreSections PROVE RouterTypeOK OBVIOUS
<1>1. \A i \in DOMAIN presets : presets[i] \in Preset BY DEF RouterInv
<1>2. ASSUME NEW q \in Seq(Section), NEW s \in Range(q) PROVE s \in Section BY DEF Range
<1>3. ini.sections \in Seq(Section) /\ router.ini.sections \in Seq(Section) BY DEF FilesAreSections
<1>. QED BY <1>1, <1>2, <1>3 DEF RouterInv, FilesAreSections, RouterTypeOK

\* Whatever is saved, renamed, deleted or copied into the directory, and however
\* the ids of models fall together: every preset has a section that serves its
\* model with its settings, if no preset is named like the model of one before
\* it; a router without drift runs so the presets whose arguments it told; and
\* the id of every file serves a file of that id.  render_ini(), ini_drift() and
\* the saves of presets_api.py.
THEOREM EveryPresetIsServed == RouterSpec => [](RouterTypeOK /\ PresetsAreServed)
<1>1. RouterInv => PresetsAreServed BY TableServes, TableFinds DEF PresetsAreServed
<1>. QED BY <1>1, RouterInitSound, RouterStep, FilesAtFirst, FilesStaySections, RouterIsTyped, PTL DEF RouterSpec

-----------------------------------------------------------------------------
(* Commands.  The fields that from_argv() reads and the flags that          *)
(* llama-server reads are compared token by token.                          *)

Flags == Named \union {"--rpc"}

LEMMA FlagsAre ==
    /\ ValueFlags = {"--model", "--temp", "--model-draft", "--spec-type", "--draft-max", "-dev", "--models-dir", "--rpc"}
    /\ DOMAIN FieldOf = {"--model", "--temp", "--model-draft", "--spec-type", "--draft-max", "-dev", "--models-dir"}
    /\ Named = {"--model", "--temp", "--model-draft", "--spec-type", "--draft-max", "-dev", "--models-dir",
                "--reasoning", "--verbose", "--jinja", "--metrics", "--cont-batching"}
    /\ Flags = Named \union {"--rpc"}
    /\ Switches = {"--jinja", "--metrics", "--cont-batching", "--no-cont-batching"}
    /\ None = "none"
<1>1. DOMAIN FieldOf = {"--model", "--temp", "--model-draft", "--spec-type", "--draft-max", "-dev", "--models-dir"}
    BY DEF FieldOf
<1>2. ValueFlags = DOMAIN FieldOf \union {"--rpc"} BY DEF ValueFlags
<1>3. Named = (ValueFlags \ {"--rpc"}) \union {"--reasoning", "--verbose", "--jinja", "--metrics", "--cont-batching"}
    BY DEF Named
<1>. QED BY <1>1, <1>2, <1>3 DEF Flags, Switches, None

LEMMA TokensAre ==
    /\ {"--model", "--temp", "--model-draft", "--spec-type", "--draft-max", "-dev", "--models-dir", "--rpc", "--jinja",
        "--metrics", "--cont-batching", "--no-cont-batching", "--temperature", "--reasoning", "--verbose",
        "auto", "on", "off", "x", "draft", "endpoint"} \subseteq LineTokens
    /\ None \notin LineTokens /\ LineTokens \subseteq Optional /\ None \in Optional
    /\ \A x \in Optional : x # None => x \in LineTokens
BY FlagsAre, CommandAssumption DEF Words, Optional

LEMMA FieldsAre ==
    /\ FieldOf["--model"] = "model" /\ FieldOf["--temp"] = "temp" /\ FieldOf["--model-draft"] = "draftModel"
    /\ FieldOf["--spec-type"] = "spec" /\ FieldOf["--draft-max"] = "draftMax" /\ FieldOf["-dev"] = "devices"
    /\ FieldOf["--models-dir"] = "modelsDir"
BY DEF FieldOf

\* The fields that a command has set are what its flags say.
Matches(c, fl) ==
    /\ c \in Fields /\ fl \in [Flags -> Optional]
    /\ c.model = fl["--model"] /\ c.draftModel = fl["--model-draft"] /\ c.spec = fl["--spec-type"]
    /\ c.draftMax = fl["--draft-max"] /\ c.devices = fl["-dev"] /\ c.modelsDir = fl["--models-dir"]
    /\ c.temp = IF fl["--temp"] = None THEN "x" ELSE fl["--temp"]
    /\ c.mode = IF fl["--models-dir"] = None THEN "single" ELSE "router"
    /\ fl["--jinja"] = IF c.jinja THEN "on" ELSE None
    /\ fl["--metrics"] = IF c.metrics THEN "on" ELSE None
    /\ fl["--cont-batching"] = IF c.contBatching THEN "on" ELSE "off"
    /\ c.extra \in Seq({"--verbose"})
    /\ fl["--verbose"] = IF c.extra = <<>> THEN None ELSE "on"
    /\ c.override = <<>>

\* So is the one flag that may stand without its value, once it is over.
Reasons(c, fl) ==
    /\ fl["--reasoning"] \in {None, "on", "off"}
    /\ c.reasoning = IF fl["--reasoning"] = None THEN "auto" ELSE fl["--reasoning"]

Waits(tok) == IF Canonical(tok) \in ValueFlags \union {"--reasoning"} THEN tok ELSE None

\* What both have read when "last" was the last token.
Read(st, sd, last) ==
    /\ st = [cfg |-> st.cfg, pending |-> IF last = "--verbose" THEN last ELSE Waits(last)]
    /\ sd = [flags |-> sd.flags, pending |-> Waits(last)]
    /\ Matches(st.cfg, sd.flags)
    /\ IF last = "--reasoning" THEN sd.flags["--reasoning"] = "on" ELSE Reasons(st.cfg, sd.flags)

\* What may follow a token in a command that is accepted.
MayFollow(last, tok) ==
    /\ Canonical(last) \in ValueFlags => ~IsFlag(tok)
    /\ last \in Switches \union {"--verbose"} => IsFlag(tok)
    /\ last = "--reasoning" => IsFlag(tok) \/ tok \in {"on", "off"}
    /\ ~IsFlag(last) => IsFlag(tok)

\* llama-server reads a flag.
LEMMA FlagSaid ==
    ASSUME NEW fl \in [Flags -> Optional], NEW p \in {None, "--reasoning"}, NEW tok, IsFlag(tok),
           NEW sd, sd = [flags |-> fl, pending |-> p]
    PROVE  /\ Said(sd, tok) = [flags |-> Said(sd, tok).flags, pending |-> Waits(tok)]
           /\ Said(sd, tok).flags \in [Flags -> Optional]
           /\ \A f \in Flags : Said(sd, tok).flags[f] =
                CASE f = tok /\ tok \in Switches \union {"--reasoning", "--verbose"} -> "on"
                  [] f = "--cont-batching" /\ tok = "--no-cont-batching" -> "off"
                  [] OTHER -> fl[f]
<1>. DEFINE new == [f \in DOMAIN sd.flags |->
                      CASE f = tok /\ tok \in Switches \union {"--reasoning", "--verbose"} -> "on"
                        [] <<f, tok>> = <<"--cont-batching", "--no-cont-batching">> -> "off"
                        [] OTHER -> sd.flags[f]]
<1>1. Canonical(sd.pending) = p BY DEF Canonical, None
<1>2. ~(p \in ValueFlags \/ (p = "--reasoning" /\ ~IsFlag(tok))) BY FlagsAre
<1>3. Said(sd, tok) = [flags |-> new, pending |-> Waits(tok)] BY <1>1, <1>2 DEF Said, Waits
<1>4. DOMAIN sd.flags = Flags /\ sd.flags = fl OBVIOUS
<1>5. \A f \in Flags : new[f] =
                CASE f = tok /\ tok \in Switches \union {"--reasoning", "--verbose"} -> "on"
                  [] f = "--cont-batching" /\ tok = "--no-cont-batching" -> "off"
                  [] OTHER -> fl[f]
    BY <1>4
<1>6. new \in [Flags -> Optional]
    <2>1. \A f \in Flags : new[f] \in Optional
        <3>1. "on" \in Optional /\ "off" \in Optional BY TokensAre
        <3>. HIDE DEF new
        <3>. QED BY <1>5, <3>1
    <2>2. new = [f \in Flags |-> new[f]] BY <1>4
    <2>. HIDE DEF new
    <2>. QED BY <2>1, <2>2
<1>. HIDE DEF new
<1>7. Said(sd, tok).flags = new BY <1>3
<1>. QED BY <1>3, <1>5, <1>6, <1>7

\* The backend reads a flag.
LEMMA FlagTaken ==
    ASSUME NEW c \in Fields, NEW tok, IsFlag(tok), NEW fl, Matches(c, fl), Reasons(c, fl),
           NEW st, st = [cfg |-> c, pending |-> None], NEW gl \in [Flags -> Optional],
           \A f \in Flags : gl[f] =
                CASE f = tok /\ tok \in Switches \union {"--reasoning", "--verbose"} -> "on"
                  [] f = "--cont-batching" /\ tok = "--no-cont-batching" -> "off"
                  [] OTHER -> fl[f]
    PROVE  LET to == Begun(st, tok) IN
           /\ to = [cfg |-> to.cfg, pending |-> IF tok = "--verbose" THEN tok ELSE Waits(tok)]
           /\ Matches(to.cfg, gl)
           /\ IF tok = "--reasoning" THEN gl["--reasoning"] = "on" ELSE Reasons(to.cfg, gl)
<1>. DEFINE to == Begun(st, tok)
<1>1. CASE Canonical(tok) \in ValueFlags \union {"--reasoning"}
    <2>1. to = [cfg |-> c, pending |-> tok]
        <3>1. Begun(st, tok) = [st EXCEPT !.pending = tok] BY <1>1, FlagsAre DEF Begun, Canonical
        <3>. QED BY <3>1
    <2>2. tok # "--verbose" /\ tok \notin Switches /\ Waits(tok) = tok BY <1>1, FlagsAre DEF Canonical, Waits
    <2>3. \A f \in Flags : gl[f] = IF f = tok /\ tok = "--reasoning" THEN "on" ELSE fl[f]
        BY <2>2, FlagsAre
    <2>4. \A f \in Flags : f # "--reasoning" => gl[f] = fl[f] BY <2>3
    <2>5. Matches(c, gl) BY <2>4, FlagsAre DEF Matches
    <2>6. IF tok = "--reasoning" THEN gl["--reasoning"] = "on" ELSE Reasons(c, gl)
        BY <2>3, FlagsAre DEF Reasons
    <2>. QED BY <2>1, <2>2, <2>5, <2>6
<1>2. CASE tok = "--jinja"
    <2>1. PICK d : d = [c EXCEPT !.jinja = TRUE] OBVIOUS
    <2>2. to = [cfg |-> d, pending |-> None] BY <1>2, <2>1, FlagsAre DEF Begun, Canonical
    <2>3. Waits(tok) = None BY <1>2, FlagsAre DEF Canonical, Waits
    <2>4. \A f \in Flags : gl[f] = IF f = "--jinja" THEN "on" ELSE fl[f] BY <1>2, FlagsAre
    <2>5. /\ d \in Fields /\ d.jinja = TRUE
          /\ d.model = c.model /\ d.temp = c.temp /\ d.reasoning = c.reasoning /\ d.draftModel = c.draftModel
          /\ d.spec = c.spec /\ d.draftMax = c.draftMax /\ d.devices = c.devices /\ d.modelsDir = c.modelsDir
          /\ d.mode = c.mode /\ d.contBatching = c.contBatching /\ d.metrics = c.metrics /\ d.extra = c.extra
          /\ d.override = c.override
        BY <2>1 DEF Fields
    <2>6. Matches(d, gl) BY <2>4, <2>5, FlagsAre DEF Matches
    <2>7. Reasons(d, gl) BY <2>4, <2>5, FlagsAre DEF Reasons
    <2>. QED BY <1>2, <2>2, <2>3, <2>6, <2>7
<1>3. CASE tok = "--metrics"
    <2>1. PICK d : d = [c EXCEPT !.metrics = TRUE] OBVIOUS
    <2>2. to = [cfg |-> d, pending |-> None] BY <1>3, <2>1, FlagsAre DEF Begun, Canonical
    <2>3. Waits(tok) = None BY <1>3, FlagsAre DEF Canonical, Waits
    <2>4. \A f \in Flags : gl[f] = IF f = "--metrics" THEN "on" ELSE fl[f] BY <1>3, FlagsAre
    <2>5. /\ d \in Fields /\ d.metrics = TRUE
          /\ d.model = c.model /\ d.temp = c.temp /\ d.reasoning = c.reasoning /\ d.draftModel = c.draftModel
          /\ d.spec = c.spec /\ d.draftMax = c.draftMax /\ d.devices = c.devices /\ d.modelsDir = c.modelsDir
          /\ d.mode = c.mode /\ d.contBatching = c.contBatching /\ d.jinja = c.jinja /\ d.extra = c.extra
          /\ d.override = c.override
        BY <2>1 DEF Fields
    <2>6. Matches(d, gl) BY <2>4, <2>5, FlagsAre DEF Matches
    <2>7. Reasons(d, gl) BY <2>4, <2>5, FlagsAre DEF Reasons
    <2>. QED BY <1>3, <2>2, <2>3, <2>6, <2>7
<1>4. CASE tok = "--cont-batching"
    <2>1. PICK d : d = [c EXCEPT !.contBatching = TRUE] OBVIOUS
    <2>2. to = [cfg |-> d, pending |-> None] BY <1>4, <2>1, FlagsAre DEF Begun, Canonical
    <2>3. Waits(tok) = None BY <1>4, FlagsAre DEF Canonical, Waits
    <2>4. \A f \in Flags : gl[f] = IF f = "--cont-batching" THEN "on" ELSE fl[f] BY <1>4, FlagsAre
    <2>5. /\ d \in Fields /\ d.contBatching = TRUE
          /\ d.model = c.model /\ d.temp = c.temp /\ d.reasoning = c.reasoning /\ d.draftModel = c.draftModel
          /\ d.spec = c.spec /\ d.draftMax = c.draftMax /\ d.devices = c.devices /\ d.modelsDir = c.modelsDir
          /\ d.mode = c.mode /\ d.jinja = c.jinja /\ d.metrics = c.metrics /\ d.extra = c.extra
          /\ d.override = c.override
        BY <2>1 DEF Fields
    <2>6. Matches(d, gl) BY <2>4, <2>5, FlagsAre DEF Matches
    <2>7. Reasons(d, gl) BY <2>4, <2>5, FlagsAre DEF Reasons
    <2>. QED BY <1>4, <2>2, <2>3, <2>6, <2>7
<1>5. CASE tok = "--no-cont-batching"
    <2>1. PICK d : d = [c EXCEPT !.contBatching = FALSE] OBVIOUS
    <2>2. to = [cfg |-> d, pending |-> None] BY <1>5, <2>1, FlagsAre DEF Begun, Canonical
    <2>3. Waits(tok) = None BY <1>5, FlagsAre DEF Canonical, Waits
    <2>4. \A f \in Flags : gl[f] = IF f = "--cont-batching" THEN "off" ELSE fl[f] BY <1>5, FlagsAre
    <2>5. /\ d \in Fields /\ d.contBatching = FALSE
          /\ d.model = c.model /\ d.temp = c.temp /\ d.reasoning = c.reasoning /\ d.draftModel = c.draftModel
          /\ d.spec = c.spec /\ d.draftMax = c.draftMax /\ d.devices = c.devices /\ d.modelsDir = c.modelsDir
          /\ d.mode = c.mode /\ d.jinja = c.jinja /\ d.metrics = c.metrics /\ d.extra = c.extra
          /\ d.override = c.override
        BY <2>1 DEF Fields
    <2>6. Matches(d, gl) BY <2>4, <2>5, FlagsAre DEF Matches
    <2>7. Reasons(d, gl) BY <2>4, <2>5, FlagsAre DEF Reasons
    <2>. QED BY <1>5, <2>2, <2>3, <2>6, <2>7
<1>6. CASE tok = "--verbose"
    <2>1. PICK e : e = Append(c.extra, tok) OBVIOUS
    <2>2. PICK d : d = [c EXCEPT !.extra = e] OBVIOUS
    <2>3. to = [cfg |-> d, pending |-> tok]
        BY <1>6, <2>1, <2>2, FlagsAre DEF Begun, Canonical, KeptVerbatim, Fields
    <2>4. Waits(tok) = None BY <1>6, FlagsAre DEF Canonical, Waits
    <2>5. \A f \in Flags : gl[f] = IF f = "--verbose" THEN "on" ELSE fl[f] BY <1>6, FlagsAre
    <2>6. e \in Seq({"--verbose"}) /\ e # <<>>
        <3>1. PICK V : V = {"--verbose"} OBVIOUS
        <3>2. c.extra \in Seq(V) /\ tok \in V BY <1>6, <3>1 DEF Matches
        <3>. QED BY <2>1, <3>1, <3>2
    <2>7. e \in Seq(LineTokens)
        <3>1. c.extra \in Seq(LineTokens) BY DEF Fields
        <3>2. tok \in LineTokens BY <1>6, TokensAre
        <3>. QED BY <2>1, <3>1, <3>2
    <2>8. /\ d \in Fields /\ d.extra = e
          /\ d.model = c.model /\ d.temp = c.temp /\ d.reasoning = c.reasoning /\ d.draftModel = c.draftModel
          /\ d.spec = c.spec /\ d.draftMax = c.draftMax /\ d.devices = c.devices /\ d.modelsDir = c.modelsDir
          /\ d.mode = c.mode /\ d.contBatching = c.contBatching /\ d.jinja = c.jinja /\ d.metrics = c.metrics
          /\ d.override = c.override
        BY <2>2, <2>7 DEF Fields
    <2>9. Matches(d, gl) BY <2>5, <2>6, <2>8, FlagsAre DEF Matches
    <2>10. Reasons(d, gl) BY <2>5, <2>8, FlagsAre DEF Reasons
    <2>. QED BY <1>6, <2>3, <2>4, <2>9, <2>10
<1>7. tok \in {"--jinja", "--metrics", "--cont-batching", "--no-cont-batching", "--verbose"}
      \/ Canonical(tok) \in ValueFlags \union {"--reasoning"}
    BY FlagsAre DEF IsFlag, Canonical
<1>. QED BY <1>1, <1>2, <1>3, <1>4, <1>5, <1>6, <1>7

\* llama-server reads a value.
LEMMA ValueSaid ==
    ASSUME NEW fl \in [Flags -> Optional], NEW p, NEW tok \in LineTokens,
           Canonical(p) \in ValueFlags \/ (p = "--reasoning" /\ ~IsFlag(tok)),
           NEW sd, sd = [flags |-> fl, pending |-> p]
    PROVE  /\ Said(sd, tok) = [flags |-> Said(sd, tok).flags, pending |-> None]
           /\ Said(sd, tok).flags \in [Flags -> Optional]
           /\ \A f \in Flags : Said(sd, tok).flags[f] = IF f = Canonical(p) THEN tok ELSE fl[f]
<1>. DEFINE new == [fl EXCEPT ![Canonical(p)] = tok]
<1>1. Canonical(p) \in ValueFlags \/ (Canonical(p) = "--reasoning" /\ ~IsFlag(tok)) BY DEF Canonical
<1>2. Said(sd, tok) = [flags |-> new, pending |-> None] BY <1>1 DEF Said
<1>3. Canonical(p) \in Flags BY <1>1, FlagsAre
<1>4. tok \in Optional BY TokensAre
<1>5. new \in [Flags -> Optional] /\ \A f \in Flags : new[f] = IF f = Canonical(p) THEN tok ELSE fl[f]
    BY <1>3, <1>4
<1>. HIDE DEF new
<1>. QED BY <1>2, <1>5

\* The backend reads the value of a flag that has one.
LEMMA ValueTaken ==
    ASSUME NEW c \in Fields, NEW flag \in ValueFlags, NEW tok \in LineTokens,
           NEW fl, Matches(c, fl), Reasons(c, fl),
           NEW p, NEW st, st = [cfg |-> c, pending |-> p], NEW gl \in [Flags -> Optional],
           \A f \in Flags : gl[f] = IF f = flag THEN tok ELSE fl[f]
    PROVE  LET to == Assigned(st, flag, tok) IN
           /\ to = [cfg |-> to.cfg, pending |-> None]
           /\ Matches(to.cfg, gl) /\ Reasons(to.cfg, gl)
<1>. DEFINE to == Assigned(st, flag, tok)
<1>9. tok # None /\ tok \in Optional BY TokensAre
<1>1. CASE flag = "--rpc"
    <2>1. to = [cfg |-> c, pending |-> None] BY <1>1 DEF Assigned
    <2>2. \A f \in Named : gl[f] = fl[f] BY <1>1, FlagsAre
    <2>3. Matches(c, gl) BY <2>2, FlagsAre DEF Matches
    <2>4. Reasons(c, gl) BY <2>2, FlagsAre DEF Reasons
    <2>. QED BY <2>1, <2>3, <2>4
<1>2. CASE flag = "--models-dir"
    <2>1. PICK d : d = [c EXCEPT !.modelsDir = tok, !.mode = "router"] OBVIOUS
    <2>2. to = [cfg |-> d, pending |-> None] BY <1>2, <2>1 DEF Assigned, Fields
    <2>3. /\ d \in Fields /\ d.modelsDir = tok /\ d.mode = "router"
          /\ d.model = c.model /\ d.temp = c.temp /\ d.reasoning = c.reasoning /\ d.draftModel = c.draftModel
          /\ d.spec = c.spec /\ d.draftMax = c.draftMax /\ d.devices = c.devices /\ d.contBatching = c.contBatching
          /\ d.jinja = c.jinja /\ d.metrics = c.metrics /\ d.extra = c.extra /\ d.override = c.override
        BY <1>9, <2>1 DEF Fields
    <2>4. Matches(d, gl) BY <1>9, <1>2, <2>3, FlagsAre DEF Matches
    <2>5. Reasons(d, gl) BY <1>2, <2>3, FlagsAre DEF Reasons
    <2>. QED BY <2>2, <2>4, <2>5
<1>3. CASE flag = "--model"
    <2>1. PICK d : d = [c EXCEPT !.model = tok] OBVIOUS
    <2>2. to = [cfg |-> d, pending |-> None] BY <1>3, <2>1, FieldsAre DEF Assigned, Fields
    <2>3. /\ d \in Fields /\ d.model = tok
          /\ d.temp = c.temp /\ d.reasoning = c.reasoning /\ d.draftModel = c.draftModel /\ d.spec = c.spec
          /\ d.draftMax = c.draftMax /\ d.devices = c.devices /\ d.modelsDir = c.modelsDir /\ d.mode = c.mode
          /\ d.contBatching = c.contBatching /\ d.jinja = c.jinja /\ d.metrics = c.metrics /\ d.extra = c.extra
          /\ d.override = c.override
        BY <1>9, <2>1 DEF Fields
    <2>4. Matches(d, gl) BY <1>9, <1>3, <2>3, FlagsAre DEF Matches
    <2>5. Reasons(d, gl) BY <1>3, <2>3, FlagsAre DEF Reasons
    <2>. QED BY <2>2, <2>4, <2>5
<1>4. CASE flag = "--temp"
    <2>1. PICK d : d = [c EXCEPT !.temp = tok] OBVIOUS
    <2>2. to = [cfg |-> d, pending |-> None] BY <1>4, <2>1, FieldsAre DEF Assigned, Fields
    <2>3. /\ d \in Fields /\ d.temp = tok
          /\ d.model = c.model /\ d.reasoning = c.reasoning /\ d.draftModel = c.draftModel /\ d.spec = c.spec
          /\ d.draftMax = c.draftMax /\ d.devices = c.devices /\ d.modelsDir = c.modelsDir /\ d.mode = c.mode
          /\ d.contBatching = c.contBatching /\ d.jinja = c.jinja /\ d.metrics = c.metrics /\ d.extra = c.extra
          /\ d.override = c.override
        BY <1>9, <2>1 DEF Fields
    <2>4. Matches(d, gl) BY <1>9, <1>4, <2>3, FlagsAre DEF Matches
    <2>5. Reasons(d, gl) BY <1>4, <2>3, FlagsAre DEF Reasons
    <2>. QED BY <2>2, <2>4, <2>5
<1>5. CASE flag = "--model-draft"
    <2>1. PICK d : d = [c EXCEPT !.draftModel = tok] OBVIOUS
    <2>2. to = [cfg |-> d, pending |-> None] BY <1>5, <2>1, FieldsAre DEF Assigned, Fields
    <2>3. /\ d \in Fields /\ d.draftModel = tok
          /\ d.model = c.model /\ d.temp = c.temp /\ d.reasoning = c.reasoning /\ d.spec = c.spec
          /\ d.draftMax = c.draftMax /\ d.devices = c.devices /\ d.modelsDir = c.modelsDir /\ d.mode = c.mode
          /\ d.contBatching = c.contBatching /\ d.jinja = c.jinja /\ d.metrics = c.metrics /\ d.extra = c.extra
          /\ d.override = c.override
        BY <1>9, <2>1 DEF Fields
    <2>4. Matches(d, gl) BY <1>9, <1>5, <2>3, FlagsAre DEF Matches
    <2>5. Reasons(d, gl) BY <1>5, <2>3, FlagsAre DEF Reasons
    <2>. QED BY <2>2, <2>4, <2>5
<1>6. CASE flag = "--spec-type"
    <2>1. PICK d : d = [c EXCEPT !.spec = tok] OBVIOUS
    <2>2. to = [cfg |-> d, pending |-> None] BY <1>6, <2>1, FieldsAre DEF Assigned, Fields
    <2>3. /\ d \in Fields /\ d.spec = tok
          /\ d.model = c.model /\ d.temp = c.temp /\ d.reasoning = c.reasoning /\ d.draftModel = c.draftModel
          /\ d.draftMax = c.draftMax /\ d.devices = c.devices /\ d.modelsDir = c.modelsDir /\ d.mode = c.mode
          /\ d.contBatching = c.contBatching /\ d.jinja = c.jinja /\ d.metrics = c.metrics /\ d.extra = c.extra
          /\ d.override = c.override
        BY <1>9, <2>1 DEF Fields
    <2>4. Matches(d, gl) BY <1>9, <1>6, <2>3, FlagsAre DEF Matches
    <2>5. Reasons(d, gl) BY <1>6, <2>3, FlagsAre DEF Reasons
    <2>. QED BY <2>2, <2>4, <2>5
<1>7. CASE flag = "--draft-max"
    <2>1. PICK d : d = [c EXCEPT !.draftMax = tok] OBVIOUS
    <2>2. to = [cfg |-> d, pending |-> None] BY <1>7, <2>1, FieldsAre DEF Assigned, Fields
    <2>3. /\ d \in Fields /\ d.draftMax = tok
          /\ d.model = c.model /\ d.temp = c.temp /\ d.reasoning = c.reasoning /\ d.draftModel = c.draftModel
          /\ d.spec = c.spec /\ d.devices = c.devices /\ d.modelsDir = c.modelsDir /\ d.mode = c.mode
          /\ d.contBatching = c.contBatching /\ d.jinja = c.jinja /\ d.metrics = c.metrics /\ d.extra = c.extra
          /\ d.override = c.override
        BY <1>9, <2>1 DEF Fields
    <2>4. Matches(d, gl) BY <1>9, <1>7, <2>3, FlagsAre DEF Matches
    <2>5. Reasons(d, gl) BY <1>7, <2>3, FlagsAre DEF Reasons
    <2>. QED BY <2>2, <2>4, <2>5
<1>8. CASE flag = "-dev"
    <2>1. PICK d : d = [c EXCEPT !.devices = tok] OBVIOUS
    <2>2. to = [cfg |-> d, pending |-> None] BY <1>8, <2>1, FieldsAre DEF Assigned, Fields
    <2>3. /\ d \in Fields /\ d.devices = tok
          /\ d.model = c.model /\ d.temp = c.temp /\ d.reasoning = c.reasoning /\ d.draftModel = c.draftModel
          /\ d.spec = c.spec /\ d.draftMax = c.draftMax /\ d.modelsDir = c.modelsDir /\ d.mode = c.mode
          /\ d.contBatching = c.contBatching /\ d.jinja = c.jinja /\ d.metrics = c.metrics /\ d.extra = c.extra
          /\ d.override = c.override
        BY <1>9, <2>1 DEF Fields
    <2>4. Matches(d, gl) BY <1>9, <1>8, <2>3, FlagsAre DEF Matches
    <2>5. Reasons(d, gl) BY <1>8, <2>3, FlagsAre DEF Reasons
    <2>. QED BY <2>2, <2>4, <2>5
<1>. QED BY <1>1, <1>2, <1>3, <1>4, <1>5, <1>6, <1>7, <1>8, FlagsAre

\* The value of the flag that may stand without one.
LEMMA ReasonGiven ==
    ASSUME NEW c, NEW fl, Matches(c, fl), NEW v \in {"on", "off"}, NEW gl \in [Flags -> Optional],
           \A f \in Flags : gl[f] = IF f = "--reasoning" THEN v ELSE fl[f],
           NEW e, e = [c EXCEPT !.reasoning = v]
    PROVE  Matches(e, gl) /\ Reasons(e, gl) /\ e \in Fields
<1>1. v \in LineTokens /\ v # None /\ c \in Fields BY TokensAre DEF Matches
<1>2. /\ e \in Fields /\ e.reasoning = v
          /\ e.model = c.model /\ e.temp = c.temp /\ e.draftModel = c.draftModel /\ e.spec = c.spec
          /\ e.draftMax = c.draftMax /\ e.devices = c.devices /\ e.modelsDir = c.modelsDir /\ e.mode = c.mode
          /\ e.contBatching = c.contBatching /\ e.jinja = c.jinja /\ e.metrics = c.metrics /\ e.extra = c.extra
          /\ e.override = c.override
    BY <1>1 DEF Fields
<1>3. Matches(e, gl) BY <1>2, FlagsAre DEF Matches
<1>4. Reasons(e, gl) BY <1>1, <1>2, FlagsAre DEF Reasons
<1>. QED BY <1>2, <1>3, <1>4

\* A token that may follow keeps both readings together.
LEMMA TokenRead ==
    ASSUME NEW st, NEW sd, NEW last, Read(st, sd, last), NEW tok \in LineTokens, MayFollow(last, tok)
    PROVE  Read(Taken(st, tok), Said(sd, tok), tok)
<1>. DEFINE c == st.cfg
            fl == sd.flags
<1>1. /\ st = [cfg |-> c, pending |-> IF last = "--verbose" THEN last ELSE Waits(last)]
      /\ sd = [flags |-> fl, pending |-> Waits(last)]
      /\ Matches(c, fl) /\ c \in Fields /\ fl \in [Flags -> Optional]
      /\ IF last = "--reasoning" THEN fl["--reasoning"] = "on" ELSE Reasons(c, fl)
    BY DEF Read, Matches
<1>. HIDE DEF c, fl
<1>2. ASSUME last = "--reasoning", NEW v \in {"on", "off"}, NEW gl \in [Flags -> Optional],
             \A f \in Flags : gl[f] = IF f = "--reasoning" THEN v ELSE fl[f],
             NEW e, e = [c EXCEPT !.reasoning = v]
      PROVE  Matches(e, gl) /\ Reasons(e, gl) /\ e \in Fields
    BY <1>1, <1>2, ReasonGiven
<1>3. CASE IsFlag(tok)
    <2>1. Canonical(last) \notin ValueFlags BY <1>3 DEF MayFollow
    <2>2. Waits(last) \in {None, "--reasoning"} /\ (Waits(last) = "--reasoning" <=> last = "--reasoning")
        BY <2>1, FlagsAre DEF Waits, Canonical
    <2>3. PICK g : g = Said(sd, tok).flags OBVIOUS
    <2>4. /\ Said(sd, tok) = [flags |-> g, pending |-> Waits(tok)] /\ g \in [Flags -> Optional]
          /\ \A f \in Flags : g[f] =
                CASE f = tok /\ tok \in Switches \union {"--reasoning", "--verbose"} -> "on"
                  [] f = "--cont-batching" /\ tok = "--no-cont-batching" -> "off"
                  [] OTHER -> fl[f]
        BY <1>1, <1>3, <2>2, <2>3, FlagSaid
    <2>5. PICK b, o : /\ Taken(st, tok) = Begun(o, tok) /\ o = [cfg |-> b, pending |-> None]
                      /\ b \in Fields /\ Matches(b, fl) /\ Reasons(b, fl)
        <3>1. CASE last = "--reasoning"
            <4>1. st = [cfg |-> c, pending |-> "--reasoning"] BY <1>1, <3>1, FlagsAre DEF Waits, Canonical
            <4>2. tok \notin {"on", "off", "auto"} BY <1>3, FlagsAre DEF IsFlag
            <4>3. Taken(st, tok) = Begun([st EXCEPT !.cfg.reasoning = "on", !.pending = None], tok)
                BY <4>1, <4>2, FlagsAre DEF Taken, Canonical
            <4>4. PICK d : d = [c EXCEPT !.reasoning = "on"] OBVIOUS
            <4>5. PICK o : o = [st EXCEPT !.cfg.reasoning = "on", !.pending = None] OBVIOUS
            <4>6. o = [cfg |-> d, pending |-> None] BY <4>1, <4>4, <4>5
            <4>7. Matches(d, fl) /\ Reasons(d, fl) /\ d \in Fields
                <5>1. \A f \in Flags : fl[f] = IF f = "--reasoning" THEN "on" ELSE fl[f] BY <1>1, <3>1
                <5>. QED BY <1>1, <1>2, <3>1, <4>4, <5>1
            <4>. QED BY <4>3, <4>5, <4>6, <4>7
        <3>2. CASE last = "--verbose"
            <4>1. st = [cfg |-> c, pending |-> "--verbose"] BY <1>1, <3>2
            <4>2. Taken(st, tok) = Begun([st EXCEPT !.pending = None], tok)
                BY <1>3, <4>1, FlagsAre DEF Taken, Canonical
            <4>3. [st EXCEPT !.pending = None] = [cfg |-> c, pending |-> None] BY <4>1
            <4>. QED BY <1>1, <3>2, <4>2, <4>3
        <3>3. CASE last \notin {"--reasoning", "--verbose"}
            <4>1. st = [cfg |-> c, pending |-> None] BY <1>1, <2>2, <3>3
            <4>2. Taken(st, tok) = Begun(st, tok) BY <4>1, FlagsAre DEF Taken, Canonical
            <4>. QED BY <1>1, <3>3, <4>1, <4>2
        <3>. QED BY <3>1, <3>2, <3>3
    <2>6. LET to == Begun(o, tok) IN
           /\ to = [cfg |-> to.cfg, pending |-> IF tok = "--verbose" THEN tok ELSE Waits(tok)]
           /\ Matches(to.cfg, g)
           /\ IF tok = "--reasoning" THEN g["--reasoning"] = "on" ELSE Reasons(to.cfg, g)
        BY <1>3, <2>4, <2>5, FlagTaken
    <2>. QED BY <2>4, <2>5, <2>6 DEF Read
<1>4. CASE ~IsFlag(tok)
    <2>1. tok # "--verbose" /\ tok # "--reasoning" /\ Waits(tok) = None
        BY <1>4, FlagsAre DEF IsFlag, Waits, Canonical
    <2>2. Canonical(last) \in ValueFlags \/ (last = "--reasoning" /\ tok \in {"on", "off"})
        BY <1>4, FlagsAre DEF MayFollow, IsFlag, Canonical
    <2>3. Waits(last) = last /\ last # "--verbose" BY <2>2, FlagsAre DEF Waits, Canonical
    <2>4. PICK g : g = Said(sd, tok).flags OBVIOUS
    <2>5. /\ Said(sd, tok) = [flags |-> g, pending |-> None] /\ g \in [Flags -> Optional]
          /\ \A f \in Flags : g[f] = IF f = Canonical(last) THEN tok ELSE fl[f]
        BY <1>1, <1>4, <2>2, <2>3, <2>4, ValueSaid
    <2>6. PICK b : Taken(st, tok) = [cfg |-> b, pending |-> None] /\ Matches(b, g) /\ Reasons(b, g)
        <3>1. CASE Canonical(last) \in ValueFlags
            <4>1. PICK flag : flag = Canonical(last) OBVIOUS
            <4>2. st = [cfg |-> c, pending |-> last] BY <1>1, <2>3
            <4>3. flag # None /\ last # "--reasoning" BY <3>1, <4>1, FlagsAre DEF Canonical
            <4>4. Taken(st, tok) = Assigned(st, flag, tok) BY <3>1, <4>1, <4>2, <4>3, FlagsAre DEF Taken
            <4>5. Reasons(c, fl) BY <1>1, <4>3
            <4>6. LET to == Assigned(st, flag, tok) IN
                  /\ to = [cfg |-> to.cfg, pending |-> None]
                  /\ Matches(to.cfg, g) /\ Reasons(to.cfg, g)
                BY <1>1, <2>5, <3>1, <4>1, <4>2, <4>5, ValueTaken
            <4>. QED BY <4>4, <4>6
        <3>2. CASE last = "--reasoning" /\ tok \in {"on", "off"}
            <4>1. st = [cfg |-> c, pending |-> "--reasoning"] BY <1>1, <2>3, <3>2
            <4>2. PICK e : e = [c EXCEPT !.reasoning = tok] OBVIOUS
            <4>3. Taken(st, tok) = [st EXCEPT !.cfg.reasoning = tok, !.pending = None]
                BY <3>2, <4>1, FlagsAre DEF Taken, Canonical
            <4>4. Taken(st, tok) = [cfg |-> e, pending |-> None] BY <4>1, <4>2, <4>3
            <4>5. \A f \in Flags : g[f] = IF f = "--reasoning" THEN tok ELSE fl[f]
                BY <2>5, <3>2 DEF Canonical
            <4>6. Matches(e, g) /\ Reasons(e, g) BY <1>2, <2>5, <3>2, <4>2, <4>5
            <4>. QED BY <4>4, <4>6
        <3>. QED BY <2>2, <3>1, <3>2
    <2>. QED BY <2>1, <2>5, <2>6 DEF Read
<1>. QED BY <1>3, <1>4

\* Before the first token.
LEMMA NothingRead ==
    Read([cfg |-> Blank, pending |-> None], [flags |-> NothingSaid, pending |-> None], None)
<1>1. PICK c : c = Blank OBVIOUS
<1>2. /\ c.model = None /\ c.temp = "x" /\ c.reasoning = "auto" /\ c.draftModel = None /\ c.spec = None
      /\ c.draftMax = None /\ c.devices = None /\ c.modelsDir = None /\ c.mode = "single"
      /\ c.contBatching = TRUE /\ c.jinja = FALSE /\ c.metrics = FALSE /\ c.extra = <<>> /\ c.override = <<>>
    BY <1>1 DEF Blank, Defaults
<1>3. c \in Fields
    <2>1. <<>> \in Seq(LineTokens) OBVIOUS
    <2>. QED BY <1>1, <2>1, TokensAre DEF Blank, Defaults, Fields
<1>4. PICK fl : fl = NothingSaid OBVIOUS
<1>5. fl \in [Flags -> Optional] /\ \A f \in Flags : fl[f] = IF f = "--cont-batching" THEN "on" ELSE None
    <2>1. "on" \in Optional /\ None \in Optional BY TokensAre
    <2>. QED BY <1>4, <2>1 DEF NothingSaid, Flags
<1>6. <<>> \in Seq({"--verbose"}) OBVIOUS
<1>7. Matches(c, fl) BY <1>2, <1>3, <1>5, <1>6, FlagsAre DEF Matches
<1>8. Reasons(c, fl) BY <1>2, <1>5, FlagsAre DEF Reasons
<1>9. Waits(None) = None /\ None # "--verbose" /\ None # "--reasoning" BY FlagsAre DEF Waits, Canonical
<1>. QED BY <1>1, <1>4, <1>7, <1>8, <1>9 DEF Read

\* A command that is accepted is read alike: from_argv().
LEMMA LineRead ==
    ASSUME NEW argv \in Seq(LineTokens), Accepted(argv), NEW fl,
           fl = FoldLeft(Said, [flags |-> NothingSaid, pending |-> None], argv).flags
    PROVE  Matches(FromArgv(argv), fl) /\ Reasons(FromArgv(argv), fl)
<1>. DEFINE st(i) == After("token", [cfg |-> Blank, pending |-> None], argv, i)
            sd(i) == After("said", [flags |-> NothingSaid, pending |-> None], argv, i)
            last(i) == IF i = 0 THEN None ELSE argv[i]
<1>1. PICK n : n = Len(argv) OBVIOUS
<1>2. n \in Nat /\ DOMAIN argv = 1..n /\ \A i \in 1..n : argv[i] \in LineTokens BY <1>1
<1>3. ASSUME NEW i \in 1..n PROVE MayFollow(last(i - 1), argv[i])
    <2>1. argv # <<>> BY <1>1, <1>2
    <2>2. CASE i = 1
        <3>1. IsFlag(argv[1])
            <4>1. Head(argv) = argv[1] BY <2>1
            <4>. QED BY <2>1, <4>1 DEF Accepted
        <3>2. last(i - 1) = None BY <2>2
        <3>3. Canonical(None) \notin ValueFlags /\ None \notin Switches \union {"--verbose", "--reasoning"}
            BY FlagsAre DEF Canonical
        <3>. HIDE DEF last
        <3>. QED BY <2>2, <3>1, <3>2, <3>3 DEF MayFollow
    <2>3. CASE i # 1
        <3>1. PICK j : j = i - 1 OBVIOUS
        <3>2. j \in 1..(Len(argv) - 1) /\ j + 1 = i /\ last(j) = argv[j] BY <1>1, <1>2, <2>3, <3>1
        <3>. HIDE DEF last
        <3>3. MayFollow(argv[j], argv[j + 1]) BY <2>1, <3>2 DEF Accepted, MayFollow
        <3>. QED BY <3>1, <3>2, <3>3
    <2>. QED BY <2>2, <2>3
<1>. DEFINE T == {i \in 0..n : Read(st(i), sd(i), last(i))}
<1>4. 0 \in T
    <2>1. st(0) = [cfg |-> Blank, pending |-> None] BY <1>2, AfterNone
    <2>2. sd(0) = [flags |-> NothingSaid, pending |-> None] BY <1>2, AfterNone
    <2>3. last(0) = None /\ 0 \in 0..n BY <1>2
    <2>. HIDE DEF st, sd, last
    <2>. QED BY <2>1, <2>2, <2>3, NothingRead
<1>5. ASSUME NEW i \in 0..(n - 1), i \in T PROVE i + 1 \in T
    <2>1. PICK j : j = i + 1 OBVIOUS
    <2>2. j \in 1..n /\ j - 1 = i BY <1>2, <2>1
    <2>3. st(j) = Step("token", st(j - 1), argv[j]) BY <1>2, <2>2, AfterOneMore
    <2>4. sd(j) = Step("said", sd(j - 1), argv[j]) BY <1>2, <2>2, AfterOneMore
    <2>5. st(j) = Taken(st(i), argv[j]) /\ sd(j) = Said(sd(i), argv[j]) BY <2>2, <2>3, <2>4 DEF Step
    <2>6. MayFollow(last(i), argv[j]) BY <1>3, <2>2
    <2>7. Read(st(i), sd(i), last(i)) /\ argv[j] \in LineTokens BY <1>2, <1>5, <2>2
    <2>8. last(j) = argv[j] /\ j \in 0..n BY <2>2
    <2>. HIDE DEF st, sd, last
    <2>9. Read(st(j), sd(j), argv[j]) BY <2>5, <2>6, <2>7, TokenRead
    <2>. QED BY <2>1, <2>8, <2>9
<1>6. n \in T
    <2>. HIDE DEF T
    <2>. QED BY <1>2, <1>4, <1>5, Reached
<1>7. PICK s : s = st(n) OBVIOUS
<1>8. PICK d : d = sd(n) OBVIOUS
<1>9. PICK e : e = last(n) OBVIOUS
<1>10. Read(s, d, e) BY <1>6, <1>7, <1>8, <1>9
<1>11. FromArgv(argv) = Ended(s) BY <1>2, <1>7, FoldOfTokens DEF FromArgv
<1>12. fl = d.flags BY <1>2, <1>8, FoldOfWords
<1>13. Canonical(e) \notin ValueFlags
    <2>1. CASE n = 0 BY <1>9, <2>1, FlagsAre DEF Canonical
    <2>2. CASE n # 0
        <3>1. argv # <<>> /\ e = Last(argv) BY <1>1, <1>2, <1>9, <2>2 DEF Last
        <3>. QED BY <3>1 DEF Accepted
    <2>. QED BY <2>1, <2>2
<1>. HIDE DEF st, sd, last, T
<1>14. /\ s = [cfg |-> s.cfg, pending |-> IF e = "--verbose" THEN e ELSE Waits(e)]
       /\ Matches(s.cfg, fl)
       /\ IF e = "--reasoning" THEN fl["--reasoning"] = "on" ELSE Reasons(s.cfg, fl)
    BY <1>10, <1>12 DEF Read
<1>15. CASE e = "--reasoning"
    <2>1. s.pending = "--reasoning" BY <1>14, <1>15, FlagsAre DEF Waits, Canonical
    <2>2. Canonical(s.pending) \notin ValueFlags BY <2>1, FlagsAre DEF Canonical
    <2>3. PICK c : c = s.cfg OBVIOUS
    <2>4. PICK g : g = [c EXCEPT !.reasoning = "on"] OBVIOUS
    <2>5. Ended(s) = g BY <2>1, <2>2, <2>3, <2>4 DEF Ended
    <2>6. fl \in [Flags -> Optional] /\ \A f \in Flags : fl[f] = IF f = "--reasoning" THEN "on" ELSE fl[f]
        BY <1>14, <1>15 DEF Matches
    <2>7. Matches(g, fl) /\ Reasons(g, fl) BY <1>14, <2>3, <2>4, <2>6, ReasonGiven
    <2>. QED BY <1>11, <2>5, <2>7
<1>16. CASE e # "--reasoning"
    <2>1. s.pending \in {None, "--verbose"} BY <1>13, <1>14, <1>16, FlagsAre DEF Waits, Canonical
    <2>2. Canonical(s.pending) \notin ValueFlags /\ s.pending # "--reasoning" BY <2>1, FlagsAre DEF Canonical
    <2>3. Ended(s) = s.cfg BY <2>2 DEF Ended
    <2>. QED BY <1>11, <1>14, <1>16, <2>3
<1>. QED BY <1>15, <1>16

-----------------------------------------------------------------------------
(* What llama-server reads in a command that to_argv() writes               *)

\* One line after the other.
LEMMA SaidInTurn ==
    ASSUME NEW base, NEW a \in Seq(LineTokens), NEW b \in Seq(LineTokens)
    PROVE  FoldLeft(Said, base, a \o b) = FoldLeft(Said, FoldLeft(Said, base, a), b)
<1>1. PICK q : q = a \o b OBVIOUS
<1>2. PICK m : m = Len(a) OBVIOUS
<1>3. PICK n : n = Len(b) OBVIOUS
<1>4. /\ m \in Nat /\ n \in Nat /\ m + n \in Nat
      /\ DOMAIN a = 1..m /\ DOMAIN b = 1..n /\ DOMAIN q = 1..(m + n)
      /\ \A i \in 1..m : q[i] = a[i]
      /\ \A i \in 1..n : q[m + i] = b[i]
    <2>1. q \in Seq(LineTokens) /\ Len(q) = m + n
          /\ \A i \in 1..(m + n) : q[i] = IF i <= m THEN a[i] ELSE b[i - m]
        BY <1>1, <1>2, <1>3, ConcatProperties
    <2>2. m \in Nat /\ n \in Nat BY <1>2, <1>3
    <2>3. \A i \in 1..m : q[i] = a[i] BY <2>1, <2>2
    <2>4. ASSUME NEW i \in 1..n PROVE q[m + i] = b[i]
        <3>1. PICK k : k = m + i OBVIOUS
        <3>2. k \in 1..(m + n) /\ ~(k <= m) /\ k - m = i BY <2>2, <3>1
        <3>. QED BY <2>1, <3>1, <3>2
    <2>. QED BY <1>2, <1>3, <2>1, <2>2, <2>3, <2>4
<1>. DEFINE first(i) == After("said", base, a, i)
            whole(i) == After("said", base, q, i)
<1>5. PICK mid : mid = FoldLeft(Said, base, a) OBVIOUS
<1>. DEFINE second(i) == After("said", mid, b, i)
<1>6. mid = first(m) BY <1>4, <1>5, FoldOfWords
<1>7. first(0) = base /\ whole(0) = base /\ second(0) = mid
    <2>1. first(0) = base BY <1>4, AfterNone
    <2>2. PICK len : len = m + n OBVIOUS
    <2>3. len \in Nat /\ DOMAIN q = 1..len BY <1>4, <2>2
    <2>4. whole(0) = base BY <2>3, AfterNone
    <2>5. second(0) = mid BY <1>4, AfterNone
    <2>. QED BY <2>1, <2>4, <2>5
<1>8. \A i \in 1..m : first(i) = Step("said", first(i - 1), a[i])
    <2>1. m \in Nat /\ DOMAIN a = 1..m BY <1>4
    <2>. QED BY <2>1, AfterOneMore
<1>9. \A i \in 1..n : second(i) = Step("said", second(i - 1), b[i])
    <2>1. n \in Nat /\ DOMAIN b = 1..n BY <1>4
    <2>. QED BY <2>1, AfterOneMore
<1>10. /\ \A i \in 1..(m + n) : whole(i) = Step("said", whole(i - 1), q[i])
       /\ FoldLeft(Said, base, q) = whole(m + n)
    <2>1. PICK len : len = m + n OBVIOUS
    <2>2. len \in Nat /\ DOMAIN q = 1..len BY <1>4, <2>1
    <2>3. \A i \in 1..len : whole(i) = Step("said", whole(i - 1), q[i]) BY <2>2, AfterOneMore
    <2>4. FoldLeft(Said, base, q) = whole(len) BY <2>2, FoldOfWords
    <2>. QED BY <2>1, <2>3, <2>4
<1>11. FoldLeft(Said, mid, b) = second(n) BY <1>4, FoldOfWords
<1>. HIDE DEF first, whole, second
<1>. DEFINE T == {i \in 0..m : whole(i) = first(i)}
            R == {i \in 0..n : whole(m + i) = second(i)}
<1>12. m \in T
    <2>1. 0 \in T BY <1>4, <1>7
    <2>2. ASSUME NEW i \in 0..(m - 1), i \in T PROVE i + 1 \in T
        <3>1. PICK j : j = i + 1 OBVIOUS
        <3>2. j \in 1..m /\ j \in 1..(m + n) /\ j - 1 = i /\ j \in 0..m BY <1>4, <3>1
        <3>3. whole(j) = Step("said", whole(i), a[j]) BY <1>4, <1>10, <3>2
        <3>4. first(j) = Step("said", first(i), a[j]) BY <1>8, <3>2
        <3>. QED BY <2>2, <3>1, <3>2, <3>3, <3>4
    <2>3. m \in Nat /\ m \in 0..m BY <1>4
    <2>. HIDE DEF T
    <2>. QED BY <2>1, <2>2, <2>3, Reached
<1>13. n \in R
    <2>1. 0 \in R BY <1>4, <1>6, <1>7, <1>12
    <2>2. ASSUME NEW i \in 0..(n - 1), i \in R PROVE i + 1 \in R
        <3>1. PICK j : j = i + 1 OBVIOUS
        <3>2. j \in 1..n /\ m + j \in 1..(m + n) /\ j - 1 = i /\ (m + j) - 1 = m + i /\ j \in 0..n
            BY <1>4, <3>1
        <3>3. whole(m + j) = Step("said", whole((m + j) - 1), q[m + j]) BY <1>10, <3>2
        <3>4. whole(m + j) = Step("said", whole(m + i), b[j]) BY <1>4, <3>2, <3>3
        <3>5. second(j) = Step("said", second(i), b[j]) BY <1>9, <3>2
        <3>. QED BY <2>2, <3>1, <3>2, <3>4, <3>5
    <2>3. n \in Nat /\ n \in 0..n BY <1>4
    <2>. HIDE DEF R
    <2>. QED BY <2>1, <2>2, <2>3, Reached
<1>. QED BY <1>1, <1>5, <1>10, <1>11, <1>13

\* A part of a command, after which no flag waits for a value.
Speaks(q, fl, gl) ==
    /\ q \in Seq(LineTokens) /\ fl \in [Flags -> Optional] /\ gl \in [Flags -> Optional]
    /\ FoldLeft(Said, [flags |-> fl, pending |-> None], q) = [flags |-> gl, pending |-> None]

LEMMA SpeaksInTurn ==
    ASSUME NEW a, NEW b, NEW fl, NEW gl, NEW hl, Speaks(a, fl, gl), Speaks(b, gl, hl)
    PROVE  Speaks(a \o b, fl, hl)
<1>1. a \in Seq(LineTokens) /\ b \in Seq(LineTokens) BY DEF Speaks
<1>2. a \o b \in Seq(LineTokens) BY <1>1, ConcatProperties
<1>3. PICK base : base = [flags |-> fl, pending |-> None] OBVIOUS
<1>4. FoldLeft(Said, base, a \o b) = FoldLeft(Said, FoldLeft(Said, base, a), b) BY <1>1, SaidInTurn
<1>. QED BY <1>2, <1>3, <1>4 DEF Speaks

LEMMA SpeaksNothing ==
    ASSUME NEW fl \in [Flags -> Optional]
    PROVE  Speaks(<<>>, fl, fl)
<1>1. PICK q : q = <<>> OBVIOUS
<1>2. q \in Seq(LineTokens) /\ DOMAIN q = 1..0 BY <1>1
<1>3. PICK base : base = [flags |-> fl, pending |-> None] OBVIOUS
<1>4. FoldLeft(Said, base, q) = After("said", base, q, 0) BY <1>2, FoldOfWords
<1>5. After("said", base, q, 0) = base BY <1>2, AfterNone
<1>. QED BY <1>1, <1>2, <1>3, <1>4, <1>5 DEF Speaks

\* A flag that needs no value.
LEMMA SpeaksOne ==
    ASSUME NEW fl \in [Flags -> Optional], NEW tok \in Switches \union {"--verbose"}
    PROVE  \E gl : /\ Speaks(<<tok>>, fl, gl)
                   /\ \A f \in Flags : gl[f] = CASE f = tok -> "on"
                                                 [] f = "--cont-batching" /\ tok = "--no-cont-batching" -> "off"
                                                 [] OTHER -> fl[f]
<1>1. PICK q : q = <<tok>> OBVIOUS
<1>2. tok \in LineTokens /\ IsFlag(tok) /\ Waits(tok) = None
    BY FlagsAre, TokensAre DEF IsFlag, Waits, Canonical
<1>3. q \in Seq(LineTokens) /\ DOMAIN q = 1..1 /\ q[1] = tok BY <1>1, <1>2
<1>4. PICK base : base = [flags |-> fl, pending |-> None] OBVIOUS
<1>5. FoldLeft(Said, base, q) = After("said", base, q, 1) BY <1>3, FoldOfWords
<1>6. After("said", base, q, 0) = base BY <1>3, AfterNone
<1>7. \A i \in 1..1 : After("said", base, q, i) = Step("said", After("said", base, q, i - 1), q[i])
    BY <1>3, AfterOneMore
<1>8. FoldLeft(Said, base, q) = Said(base, tok)
    <2>1. 1 \in 1..1 /\ 1 - 1 = 0 OBVIOUS
    <2>. QED BY <1>3, <1>5, <1>6, <1>7, <2>1 DEF Step
<1>9. PICK gl : gl = Said(base, tok).flags OBVIOUS
<1>10. /\ Said(base, tok) = [flags |-> gl, pending |-> Waits(tok)] /\ gl \in [Flags -> Optional]
       /\ \A f \in Flags : gl[f] =
            CASE f = tok /\ tok \in Switches \union {"--reasoning", "--verbose"} -> "on"
              [] f = "--cont-batching" /\ tok = "--no-cont-batching" -> "off"
              [] OTHER -> fl[f]
    <2>1. None \in {None, "--reasoning"} OBVIOUS
    <2>. QED BY <1>2, <1>4, <1>9, <2>1, FlagSaid
<1>11. Speaks(<<tok>>, fl, gl) BY <1>1, <1>2, <1>3, <1>4, <1>8, <1>10 DEF Speaks
<1>. QED BY <1>10, <1>11, FlagsAre

\* A flag and its value.
LEMMA SpeaksTwo ==
    ASSUME NEW fl \in [Flags -> Optional], NEW flag \in ValueFlags \union {"--reasoning"}, NEW v \in LineTokens,
           flag = "--reasoning" => v \in {"on", "off"}
    PROVE  \E gl : /\ Speaks(<<flag, v>>, fl, gl)
                   /\ \A f \in Flags : gl[f] = IF f = flag THEN v ELSE fl[f]
<1>1. PICK q : q = <<flag, v>> OBVIOUS
<1>2. flag \in LineTokens /\ IsFlag(flag) /\ Waits(flag) = flag /\ Canonical(flag) = flag /\ flag \notin Switches
    BY FlagsAre, TokensAre DEF IsFlag, Waits, Canonical
<1>3. q \in Seq(LineTokens) /\ DOMAIN q = 1..2 /\ q[1] = flag /\ q[2] = v BY <1>1, <1>2
<1>4. PICK base : base = [flags |-> fl, pending |-> None] OBVIOUS
<1>5. FoldLeft(Said, base, q) = After("said", base, q, 2) BY <1>3, FoldOfWords
<1>6. After("said", base, q, 0) = base BY <1>3, AfterNone
<1>7. \A i \in 1..2 : After("said", base, q, i) = Step("said", After("said", base, q, i - 1), q[i])
    BY <1>3, AfterOneMore
<1>8. After("said", base, q, 1) = Said(base, flag)
    <2>1. 1 \in 1..2 /\ 1 - 1 = 0 OBVIOUS
    <2>. QED BY <1>3, <1>6, <1>7, <2>1 DEF Step
<1>9. After("said", base, q, 2) = Said(Said(base, flag), v)
    <2>1. 2 \in 1..2 /\ 2 - 1 = 1 OBVIOUS
    <2>. QED BY <1>3, <1>7, <1>8, <2>1 DEF Step
<1>10. PICK hl : hl = Said(base, flag).flags OBVIOUS
<1>11. /\ Said(base, flag) = [flags |-> hl, pending |-> flag] /\ hl \in [Flags -> Optional]
       /\ \A f \in Flags : f # flag => hl[f] = fl[f]
    <2>1. None \in {None, "--reasoning"} OBVIOUS
    <2>2. /\ Said(base, flag) = [flags |-> hl, pending |-> Waits(flag)] /\ hl \in [Flags -> Optional]
          /\ \A f \in Flags : hl[f] =
                CASE f = flag /\ flag \in Switches \union {"--reasoning", "--verbose"} -> "on"
                  [] f = "--cont-batching" /\ flag = "--no-cont-batching" -> "off"
                  [] OTHER -> fl[f]
        BY <1>2, <1>4, <1>10, <2>1, FlagSaid
    <2>3. flag # "--no-cont-batching" BY FlagsAre
    <2>. QED BY <1>2, <2>2, <2>3
<1>12. PICK sd : sd = Said(base, flag) OBVIOUS
<1>13. PICK gl : gl = Said(sd, v).flags OBVIOUS
<1>14. /\ Said(sd, v) = [flags |-> gl, pending |-> None] /\ gl \in [Flags -> Optional]
       /\ \A f \in Flags : gl[f] = IF f = flag THEN v ELSE hl[f]
    <2>1. Canonical(flag) \in ValueFlags \/ (flag = "--reasoning" /\ ~IsFlag(v))
        BY <1>2, FlagsAre DEF IsFlag
    <2>2. sd = [flags |-> hl, pending |-> flag] BY <1>11, <1>12
    <2>3. hl \in [Flags -> Optional] BY <1>11
    <2>. QED BY <1>2, <1>13, <2>1, <2>2, <2>3, ValueSaid
<1>15. Speaks(<<flag, v>>, fl, gl) BY <1>1, <1>3, <1>4, <1>5, <1>9, <1>12, <1>14 DEF Speaks
<1>. QED BY <1>11, <1>14, <1>15

\* Both are left out where there is nothing to say.
LEMMA SpeaksWhen ==
    ASSUME NEW fl \in [Flags -> Optional], NEW flag \in ValueFlags \union {"--reasoning"}, NEW v \in Optional,
           flag = "--reasoning" => v \in {None, "on", "off"},
           NEW q, q = IF v = None THEN <<>> ELSE <<flag, v>>
    PROVE  \E gl \in [Flags -> Optional] :
                /\ Speaks(q, fl, gl)
                /\ \A f \in Flags : gl[f] = IF v # None /\ f = flag THEN v ELSE fl[f]
<1>1. CASE v # None
    <2>1. q = <<flag, v>> /\ v \in LineTokens BY <1>1, TokensAre
    <2>2. PICK gl : /\ Speaks(<<flag, v>>, fl, gl)
                    /\ \A f \in Flags : gl[f] = IF f = flag THEN v ELSE fl[f]
        BY <1>1, <2>1, SpeaksTwo
    <2>3. Speaks(q, fl, gl) BY <2>1, <2>2
    <2>4. gl \in [Flags -> Optional] BY <2>2 DEF Speaks
    <2>5. \A f \in Flags : gl[f] = IF v # None /\ f = flag THEN v ELSE fl[f] BY <1>1, <2>2
    <2>. QED BY <2>3, <2>4, <2>5
<1>2. CASE v = None
    <2>1. q = <<>> BY <1>2
    <2>. QED BY <1>2, <2>1, SpeaksNothing
<1>. QED BY <1>1, <1>2

\* What was kept as it was.
LEMMA SpeaksExtra ==
    ASSUME NEW fl \in [Flags -> Optional], NEW q \in Seq({"--verbose"})
    PROVE  \E gl : /\ Speaks(q, fl, gl) /\ gl \in [Flags -> Optional]
                   /\ \A f \in Flags : gl[f] = IF q # <<>> /\ f = "--verbose" THEN "on" ELSE fl[f]
<1>1. PICK n : n = Len(q) OBVIOUS
<1>2. n \in Nat /\ DOMAIN q = 1..n /\ \A i \in 1..n : q[i] = "--verbose"
    <2>1. PICK V : V = {"--verbose"} OBVIOUS
    <2>2. q \in Seq(V) BY <2>1
    <2>3. \A i \in 1..n : q[i] \in V BY <1>1, <2>2, ElementOfSeq
    <2>. QED BY <1>1, <2>1, <2>2, <2>3, LenProperties
<1>3. PICK base : base = [flags |-> fl, pending |-> None] OBVIOUS
<1>. DEFINE at(i) == After("said", base, q, i)
            Good(i) == \E gl \in [Flags -> Optional] :
                          /\ at(i) = [flags |-> gl, pending |-> None]
                          /\ \A f \in Flags : gl[f] = IF i # 0 /\ f = "--verbose" THEN "on" ELSE fl[f]
            T == {i \in 0..n : Good(i)}
<1>4. 0 \in T
    <2>1. at(0) = base BY <1>2, AfterNone
    <2>2. 0 \in 0..n BY <1>2
    <2>. HIDE DEF at
    <2>. QED BY <1>3, <2>1, <2>2
<1>5. ASSUME NEW i \in 0..(n - 1), i \in T PROVE i + 1 \in T
    <2>1. PICK j : j = i + 1 OBVIOUS
    <2>2. j \in 1..n /\ j - 1 = i /\ j \in 0..n /\ j # 0 BY <1>2, <2>1
    <2>3. at(j) = Step("said", at(j - 1), q[j]) BY <1>2, <2>2, AfterOneMore
    <2>4. at(j) = Said(at(i), "--verbose") BY <1>2, <2>2, <2>3 DEF Step
    <2>. HIDE DEF at
    <2>5. PICK gl \in [Flags -> Optional] :
            /\ at(i) = [flags |-> gl, pending |-> None]
            /\ \A f \in Flags : gl[f] = IF i # 0 /\ f = "--verbose" THEN "on" ELSE fl[f]
        BY <1>5
    <2>6. PICK hl : hl = Said(at(i), "--verbose").flags OBVIOUS
    <2>7. /\ Said(at(i), "--verbose") = [flags |-> hl, pending |-> Waits("--verbose")]
          /\ hl \in [Flags -> Optional]
          /\ \A f \in Flags : hl[f] = IF f = "--verbose" THEN "on" ELSE gl[f]
        <3>1. PICK tok : tok = "--verbose" OBVIOUS
        <3>2. IsFlag(tok) /\ None \in {None, "--reasoning"} BY <3>1 DEF IsFlag
        <3>3. PICK sd : sd = at(i) OBVIOUS
        <3>4. sd = [flags |-> gl, pending |-> None] BY <2>5, <3>3
        <3>5. /\ Said(sd, tok) = [flags |-> Said(sd, tok).flags, pending |-> Waits(tok)]
              /\ Said(sd, tok).flags \in [Flags -> Optional]
              /\ \A f \in Flags : Said(sd, tok).flags[f] =
                    CASE f = tok /\ tok \in Switches \union {"--reasoning", "--verbose"} -> "on"
                      [] f = "--cont-batching" /\ tok = "--no-cont-batching" -> "off"
                      [] OTHER -> gl[f]
            BY <3>2, <3>4, FlagSaid
        <3>. QED BY <2>6, <3>1, <3>3, <3>5
    <2>8. Waits("--verbose") = None BY FlagsAre DEF Waits, Canonical
    <2>9. \A f \in Flags : hl[f] = IF f = "--verbose" THEN "on" ELSE fl[f] BY <2>5, <2>7
    <2>10. Good(j) BY <2>2, <2>4, <2>7, <2>8, <2>9
    <2>. QED BY <2>1, <2>2, <2>10
<1>6. n \in T
    <2>. HIDE DEF T
    <2>. QED BY <1>2, <1>4, <1>5, Reached
<1>7. PICK gl \in [Flags -> Optional] :
        /\ at(n) = [flags |-> gl, pending |-> None]
        /\ \A f \in Flags : gl[f] = IF n # 0 /\ f = "--verbose" THEN "on" ELSE fl[f]
    BY <1>6
<1>8. FoldLeft(Said, base, q) = at(n) BY <1>2, FoldOfWords
<1>9. q \in Seq(LineTokens)
    <2>1. \A i \in 1..n : q[i] \in LineTokens BY <1>2, TokensAre
    <2>2. q = [i \in 1..n |-> q[i]]
        <3>1. PICK V : V = {"--verbose"} OBVIOUS
        <3>2. q \in Seq(V) BY <3>1
        <3>. QED BY <1>1, <3>2, LenProperties
    <2>. QED BY <1>2, <2>1, <2>2
<1>10. q # <<>> <=> n # 0 BY <1>1
<1>. HIDE DEF at
<1>. QED BY <1>3, <1>7, <1>8, <1>9, <1>10 DEF Speaks

LEMMA NothingSaidIs ==
    /\ NothingSaid \in [Flags -> Optional]
    /\ \A f \in Flags : NothingSaid[f] = IF f = "--cont-batching" THEN "on" ELSE None
<1>1. "on" \in Optional /\ None \in Optional BY TokensAre
<1>. QED BY <1>1 DEF NothingSaid, Flags

\* Words that say v of a flag, or nothing, and what llama-server has read then.
SaysOf(q, v, flag) ==
    /\ flag \in ValueFlags \union {"--reasoning"} /\ v \in Optional
    /\ flag = "--reasoning" => v \in {None, "on", "off"}
    /\ q = IF v = None THEN <<>> ELSE <<flag, v>>

SaysSwitch(q, v, flag, tok) ==
    /\ tok \in Switches /\ flag = (IF tok = "--no-cont-batching" THEN "--cont-batching" ELSE tok)
    /\ v \in {None, IF tok = "--no-cont-batching" THEN "off" ELSE "on"}
    /\ q = IF v = None THEN <<>> ELSE <<tok>>

Heard(q, v, flag, fl, gl) ==
    /\ gl \in [Flags -> Optional] /\ Speaks(q, fl, gl)
    /\ \A f \in Flags : gl[f] = IF v # None /\ f = flag THEN v ELSE fl[f]

LEMMA FlagHeard ==
    ASSUME NEW fl \in [Flags -> Optional], NEW q, NEW v, NEW flag, SaysOf(q, v, flag)
    PROVE  \E gl : Heard(q, v, flag, fl, gl)
<1>1. /\ flag \in ValueFlags \union {"--reasoning"} /\ v \in Optional
      /\ flag = "--reasoning" => v \in {None, "on", "off"}
      /\ q = IF v = None THEN <<>> ELSE <<flag, v>>
    BY DEF SaysOf
<1>2. \E gl \in [Flags -> Optional] :
        /\ Speaks(q, fl, gl)
        /\ \A f \in Flags : gl[f] = IF v # None /\ f = flag THEN v ELSE fl[f]
    BY <1>1, SpeaksWhen
<1>. QED BY <1>2 DEF Heard

LEMMA SwitchHeard ==
    ASSUME NEW fl \in [Flags -> Optional], NEW q, NEW v, NEW flag, NEW tok, SaysSwitch(q, v, flag, tok)
    PROVE  \E gl : Heard(q, v, flag, fl, gl)
<1>. USE DEF SaysSwitch
<1>1. CASE v # None
    <2>1. q = <<tok>> /\ tok \in Switches BY <1>1
    <2>2. PICK gl : /\ Speaks(<<tok>>, fl, gl)
                    /\ \A f \in Flags : gl[f] = CASE f = tok -> "on"
                                                  [] f = "--cont-batching" /\ tok = "--no-cont-batching" -> "off"
                                                  [] OTHER -> fl[f]
        BY <2>1, SpeaksOne
    <2>3. gl \in [Flags -> Optional] BY <2>2 DEF Speaks
    <2>4. \A f \in Flags : gl[f] = IF v # None /\ f = flag THEN v ELSE fl[f] BY <1>1, <2>2, FlagsAre
    <2>5. Speaks(q, fl, gl) BY <2>1, <2>2
    <2>. QED BY <2>3, <2>4, <2>5 DEF Heard
<1>2. CASE v = None
    <2>1. q = <<>> BY <1>2
    <2>2. Speaks(q, fl, fl) BY <2>1, SpeaksNothing
    <2>. QED BY <1>2, <2>2 DEF Heard
<1>. QED BY <1>1, <1>2

\* The command of a preset with one model.
LEMMA SingleIsSaid ==
    ASSUME NEW c \in Fields, c.extra \in Seq({"--verbose"}), c.reasoning \in {"auto", "on", "off"}
    PROVE  \E gl : /\ Speaks(SingleArgv(c), NothingSaid, gl)
                   /\ gl["--model"] = c.model /\ gl["--temp"] = c.temp
                   /\ gl["--reasoning"] = IF c.reasoning = "auto" THEN None ELSE c.reasoning
                   /\ gl["--spec-type"] = c.spec /\ gl["--model-draft"] = c.draftModel
                   /\ gl["--draft-max"] = IF Drafts(c) THEN c.draftMax ELSE None
                   /\ gl["-dev"] = c.devices
                   /\ gl["--cont-batching"] = IF c.contBatching THEN "on" ELSE "off"
                   /\ gl["--jinja"] = IF c.jinja THEN "on" ELSE None
                   /\ gl["--metrics"] = IF c.metrics THEN "on" ELSE None
                   /\ gl["--verbose"] = IF c.extra = <<>> THEN None ELSE "on"
                   /\ gl["--models-dir"] = None
                   /\ gl["--rpc"] = IF c.devices = "rpc0" THEN "endpoint" ELSE None
<1>1. /\ c.model \in Optional /\ c.temp \in LineTokens /\ c.draftModel \in Optional /\ c.spec \in Optional
      /\ c.draftMax \in Optional /\ c.devices \in Optional /\ c.modelsDir \in Optional
      /\ c.contBatching \in BOOLEAN /\ c.jinja \in BOOLEAN /\ c.metrics \in BOOLEAN
    BY DEF Fields
<1>2. PICK n : n = NothingSaid OBVIOUS
<1>3. n \in [Flags -> Optional] BY <1>2, NothingSaidIs
<1>0. \A f \in Flags : n[f] = IF f = "--cont-batching" THEN "on" ELSE None BY <1>2, NothingSaidIs
<1>4. PICK v1 : v1 = c.model OBVIOUS
<1>5. PICK q1 : q1 = When(c.model # None, <<"--model", c.model>>) OBVIOUS
<1>6. PICK g1 : Heard(q1, v1, "--model", n, g1)
    <2>1. PICK flag : flag = "--model" OBVIOUS
    <2>2. flag \in ValueFlags \union {"--reasoning"} BY <2>1, FlagsAre
    <2>3. v1 \in Optional /\ (flag = "--reasoning" => v1 \in {None, "on", "off"}) BY <1>1, <1>4, <2>1, TokensAre
    <2>4. q1 = IF v1 = None THEN <<>> ELSE <<flag, v1>> BY <1>1, <1>4, <1>5, <2>1, TokensAre DEF When
    <2>5. SaysOf(q1, v1, flag) BY <2>2, <2>3, <2>4 DEF SaysOf
    <2>6. n \in [Flags -> Optional] BY <1>3
    <2>. QED BY <2>1, <2>5, <2>6, FlagHeard
<1>7. PICK v2 : v2 = c.temp OBVIOUS
<1>8. PICK q2 : q2 = <<"--temp", c.temp>> OBVIOUS
<1>9. PICK g2 : Heard(q2, v2, "--temp", g1, g2)
    <2>1. PICK flag : flag = "--temp" OBVIOUS
    <2>2. flag \in ValueFlags \union {"--reasoning"} BY <2>1, FlagsAre
    <2>3. v2 \in Optional /\ (flag = "--reasoning" => v2 \in {None, "on", "off"}) BY <1>1, <1>7, <2>1, TokensAre
    <2>4. q2 = IF v2 = None THEN <<>> ELSE <<flag, v2>> BY <1>1, <1>7, <1>8, <2>1, TokensAre DEF When
    <2>5. SaysOf(q2, v2, flag) BY <2>2, <2>3, <2>4 DEF SaysOf
    <2>6. g1 \in [Flags -> Optional] BY <1>6 DEF Heard
    <2>. QED BY <2>1, <2>5, <2>6, FlagHeard
<1>10. PICK v3 : v3 = IF c.reasoning = "auto" THEN None ELSE c.reasoning OBVIOUS
<1>11. PICK q3 : q3 = When(c.reasoning # "auto", <<"--reasoning", c.reasoning>>) OBVIOUS
<1>12. PICK g3 : Heard(q3, v3, "--reasoning", g2, g3)
    <2>1. PICK flag : flag = "--reasoning" OBVIOUS
    <2>2. flag \in ValueFlags \union {"--reasoning"} BY <2>1, FlagsAre
    <2>3. v3 \in Optional /\ (flag = "--reasoning" => v3 \in {None, "on", "off"}) BY <1>1, <1>10, <2>1, TokensAre
    <2>4. q3 = IF v3 = None THEN <<>> ELSE <<flag, v3>> BY <1>1, <1>10, <1>11, <2>1, TokensAre DEF When
    <2>5. SaysOf(q3, v3, flag) BY <2>2, <2>3, <2>4 DEF SaysOf
    <2>6. g2 \in [Flags -> Optional] BY <1>9 DEF Heard
    <2>. QED BY <2>1, <2>5, <2>6, FlagHeard
<1>13. PICK v4 : v4 = c.spec OBVIOUS
<1>14. PICK q4 : q4 = When(c.spec # None, <<"--spec-type", c.spec>>) OBVIOUS
<1>15. PICK g4 : Heard(q4, v4, "--spec-type", g3, g4)
    <2>1. PICK flag : flag = "--spec-type" OBVIOUS
    <2>2. flag \in ValueFlags \union {"--reasoning"} BY <2>1, FlagsAre
    <2>3. v4 \in Optional /\ (flag = "--reasoning" => v4 \in {None, "on", "off"}) BY <1>1, <1>13, <2>1, TokensAre
    <2>4. q4 = IF v4 = None THEN <<>> ELSE <<flag, v4>> BY <1>1, <1>13, <1>14, <2>1, TokensAre DEF When
    <2>5. SaysOf(q4, v4, flag) BY <2>2, <2>3, <2>4 DEF SaysOf
    <2>6. g3 \in [Flags -> Optional] BY <1>12 DEF Heard
    <2>. QED BY <2>1, <2>5, <2>6, FlagHeard
<1>16. PICK v5 : v5 = c.draftModel OBVIOUS
<1>17. PICK q5 : q5 = When(c.draftModel # None, <<"--model-draft", c.draftModel>>) OBVIOUS
<1>18. PICK g5 : Heard(q5, v5, "--model-draft", g4, g5)
    <2>1. PICK flag : flag = "--model-draft" OBVIOUS
    <2>2. flag \in ValueFlags \union {"--reasoning"} BY <2>1, FlagsAre
    <2>3. v5 \in Optional /\ (flag = "--reasoning" => v5 \in {None, "on", "off"}) BY <1>1, <1>16, <2>1, TokensAre
    <2>4. q5 = IF v5 = None THEN <<>> ELSE <<flag, v5>> BY <1>1, <1>16, <1>17, <2>1, TokensAre DEF When
    <2>5. SaysOf(q5, v5, flag) BY <2>2, <2>3, <2>4 DEF SaysOf
    <2>6. g4 \in [Flags -> Optional] BY <1>15 DEF Heard
    <2>. QED BY <2>1, <2>5, <2>6, FlagHeard
<1>19. PICK v6 : v6 = IF Drafts(c) THEN c.draftMax ELSE None OBVIOUS
<1>20. PICK q6 : q6 = When(c.draftMax # None /\ Drafts(c), <<"--draft-max", c.draftMax>>) OBVIOUS
<1>21. PICK g6 : Heard(q6, v6, "--draft-max", g5, g6)
    <2>1. PICK flag : flag = "--draft-max" OBVIOUS
    <2>2. flag \in ValueFlags \union {"--reasoning"} BY <2>1, FlagsAre
    <2>3. v6 \in Optional /\ (flag = "--reasoning" => v6 \in {None, "on", "off"}) BY <1>1, <1>19, <2>1, TokensAre
    <2>4. q6 = IF v6 = None THEN <<>> ELSE <<flag, v6>> BY <1>1, <1>19, <1>20, <2>1, TokensAre DEF When
    <2>5. SaysOf(q6, v6, flag) BY <2>2, <2>3, <2>4 DEF SaysOf
    <2>6. g5 \in [Flags -> Optional] BY <1>18 DEF Heard
    <2>. QED BY <2>1, <2>5, <2>6, FlagHeard
<1>22. PICK v7 : v7 = IF c.devices = "rpc0" THEN "endpoint" ELSE None OBVIOUS
<1>23. PICK q7 : q7 = When(c.devices = "rpc0", <<"--rpc", "endpoint">>) OBVIOUS
<1>24. PICK g7 : Heard(q7, v7, "--rpc", g6, g7)
    <2>1. PICK flag : flag = "--rpc" OBVIOUS
    <2>2. flag \in ValueFlags \union {"--reasoning"} BY <2>1, FlagsAre
    <2>3. v7 \in Optional /\ (flag = "--reasoning" => v7 \in {None, "on", "off"}) BY <1>1, <1>22, <2>1, TokensAre
    <2>4. q7 = IF v7 = None THEN <<>> ELSE <<flag, v7>> BY <1>1, <1>22, <1>23, <2>1, TokensAre DEF When
    <2>5. SaysOf(q7, v7, flag) BY <2>2, <2>3, <2>4 DEF SaysOf
    <2>6. g6 \in [Flags -> Optional] BY <1>21 DEF Heard
    <2>. QED BY <2>1, <2>5, <2>6, FlagHeard
<1>25. PICK v8 : v8 = c.devices OBVIOUS
<1>26. PICK q8 : q8 = When(c.devices # None, <<"-dev", c.devices>>) OBVIOUS
<1>27. PICK g8 : Heard(q8, v8, "-dev", g7, g8)
    <2>1. PICK flag : flag = "-dev" OBVIOUS
    <2>2. flag \in ValueFlags \union {"--reasoning"} BY <2>1, FlagsAre
    <2>3. v8 \in Optional /\ (flag = "--reasoning" => v8 \in {None, "on", "off"}) BY <1>1, <1>25, <2>1, TokensAre
    <2>4. q8 = IF v8 = None THEN <<>> ELSE <<flag, v8>> BY <1>1, <1>25, <1>26, <2>1, TokensAre DEF When
    <2>5. SaysOf(q8, v8, flag) BY <2>2, <2>3, <2>4 DEF SaysOf
    <2>6. g7 \in [Flags -> Optional] BY <1>24 DEF Heard
    <2>. QED BY <2>1, <2>5, <2>6, FlagHeard
<1>28. PICK v9 : v9 = IF c.contBatching THEN None ELSE "off" OBVIOUS
<1>29. PICK q9 : q9 = When(~c.contBatching, <<"--no-cont-batching">>) OBVIOUS
<1>30. PICK g9 : Heard(q9, v9, "--cont-batching", g8, g9)
    <2>1. PICK tok : tok = "--no-cont-batching" OBVIOUS
    <2>2. PICK flag : flag = "--cont-batching" OBVIOUS
    <2>3. tok \in Switches /\ flag = (IF tok = "--no-cont-batching" THEN "--cont-batching" ELSE tok)
        BY <2>1, <2>2, FlagsAre
    <2>4. v9 \in {None, IF tok = "--no-cont-batching" THEN "off" ELSE "on"} BY <1>1, <1>28, <2>1
    <2>5. q9 = IF v9 = None THEN <<>> ELSE <<tok>> BY <1>1, <1>28, <1>29, <2>1 DEF When, None
    <2>6. SaysSwitch(q9, v9, flag, tok) BY <2>3, <2>4, <2>5 DEF SaysSwitch
    <2>7. g8 \in [Flags -> Optional] BY <1>27 DEF Heard
    <2>. QED BY <2>2, <2>6, <2>7, SwitchHeard
<1>31. PICK v10 : v10 = IF c.jinja THEN "on" ELSE None OBVIOUS
<1>32. PICK q10 : q10 = When(c.jinja, <<"--jinja">>) OBVIOUS
<1>33. PICK g10 : Heard(q10, v10, "--jinja", g9, g10)
    <2>1. PICK tok : tok = "--jinja" OBVIOUS
    <2>2. PICK flag : flag = "--jinja" OBVIOUS
    <2>3. tok \in Switches /\ flag = (IF tok = "--no-cont-batching" THEN "--cont-batching" ELSE tok)
        BY <2>1, <2>2, FlagsAre
    <2>4. v10 \in {None, IF tok = "--no-cont-batching" THEN "off" ELSE "on"} BY <1>1, <1>31, <2>1
    <2>5. q10 = IF v10 = None THEN <<>> ELSE <<tok>> BY <1>1, <1>31, <1>32, <2>1 DEF When, None
    <2>6. SaysSwitch(q10, v10, flag, tok) BY <2>3, <2>4, <2>5 DEF SaysSwitch
    <2>7. g9 \in [Flags -> Optional] BY <1>30 DEF Heard
    <2>. QED BY <2>2, <2>6, <2>7, SwitchHeard
<1>34. PICK v11 : v11 = IF c.metrics THEN "on" ELSE None OBVIOUS
<1>35. PICK q11 : q11 = When(c.metrics, <<"--metrics">>) OBVIOUS
<1>36. PICK g11 : Heard(q11, v11, "--metrics", g10, g11)
    <2>1. PICK tok : tok = "--metrics" OBVIOUS
    <2>2. PICK flag : flag = "--metrics" OBVIOUS
    <2>3. tok \in Switches /\ flag = (IF tok = "--no-cont-batching" THEN "--cont-batching" ELSE tok)
        BY <2>1, <2>2, FlagsAre
    <2>4. v11 \in {None, IF tok = "--no-cont-batching" THEN "off" ELSE "on"} BY <1>1, <1>34, <2>1
    <2>5. q11 = IF v11 = None THEN <<>> ELSE <<tok>> BY <1>1, <1>34, <1>35, <2>1 DEF When, None
    <2>6. SaysSwitch(q11, v11, flag, tok) BY <2>3, <2>4, <2>5 DEF SaysSwitch
    <2>7. g10 \in [Flags -> Optional] BY <1>33 DEF Heard
    <2>. QED BY <2>2, <2>6, <2>7, SwitchHeard
<1>37. PICK q12 : q12 = c.extra OBVIOUS
<1>38. PICK g12 :
        /\ g12 \in [Flags -> Optional] /\ Speaks(q12, g11, g12)
        /\ \A f \in Flags : g12[f] = IF q12 # <<>> /\ f = "--verbose" THEN "on" ELSE g11[f]
    <2>1. q12 \in Seq({"--verbose"}) BY <1>37
    <2>2. g11 \in [Flags -> Optional] BY <1>36 DEF Heard
    <2>. QED BY <2>1, <2>2, SpeaksExtra
<1>39. SingleArgv(c) = q1 \o q2 \o q3 \o q4 \o q5 \o q6 \o q7 \o q8 \o q9 \o q10 \o q11 \o q12
    BY <1>5, <1>8, <1>11, <1>14, <1>17, <1>20, <1>23, <1>26, <1>29, <1>32, <1>35, <1>37
    DEF SingleArgv
<1>40. Speaks(q1 \o q2, n, g2) BY <1>6, <1>9, SpeaksInTurn DEF Heard
<1>41. Speaks(q1 \o q2 \o q3, n, g3) BY <1>40, <1>12, SpeaksInTurn DEF Heard
<1>42. Speaks(q1 \o q2 \o q3 \o q4, n, g4) BY <1>41, <1>15, SpeaksInTurn DEF Heard
<1>43. Speaks(q1 \o q2 \o q3 \o q4 \o q5, n, g5) BY <1>42, <1>18, SpeaksInTurn DEF Heard
<1>44. Speaks(q1 \o q2 \o q3 \o q4 \o q5 \o q6, n, g6) BY <1>43, <1>21, SpeaksInTurn DEF Heard
<1>45. Speaks(q1 \o q2 \o q3 \o q4 \o q5 \o q6 \o q7, n, g7) BY <1>44, <1>24, SpeaksInTurn DEF Heard
<1>46. Speaks(q1 \o q2 \o q3 \o q4 \o q5 \o q6 \o q7 \o q8, n, g8) BY <1>45, <1>27, SpeaksInTurn DEF Heard
<1>47. Speaks(q1 \o q2 \o q3 \o q4 \o q5 \o q6 \o q7 \o q8 \o q9, n, g9) BY <1>46, <1>30, SpeaksInTurn DEF Heard
<1>48. Speaks(q1 \o q2 \o q3 \o q4 \o q5 \o q6 \o q7 \o q8 \o q9 \o q10, n, g10) BY <1>47, <1>33, SpeaksInTurn DEF Heard
<1>49. Speaks(q1 \o q2 \o q3 \o q4 \o q5 \o q6 \o q7 \o q8 \o q9 \o q10 \o q11, n, g11)
    BY <1>48, <1>36, SpeaksInTurn DEF Heard
<1>50. Speaks(q1 \o q2 \o q3 \o q4 \o q5 \o q6 \o q7 \o q8 \o q9 \o q10 \o q11 \o q12, n, g12)
    BY <1>49, <1>38, SpeaksInTurn DEF Heard
<1>51. Speaks(SingleArgv(c), NothingSaid, g12) BY <1>2, <1>39, <1>50
<1>52. g12["--model"] = c.model
    <2>1. g12["--model"] = IF v1 # None THEN v1 ELSE n["--model"]
        BY <1>6, <1>9, <1>12, <1>15, <1>18, <1>21, <1>24, <1>27, <1>30, <1>33, <1>36, <1>38, FlagsAre DEF Heard
    <2>2. n["--model"] = None BY <1>0, FlagsAre
    <2>3. PICK w : w = g12["--model"] OBVIOUS
    <2>4. w = IF v1 # None THEN v1 ELSE None BY <2>1, <2>2, <2>3
    <2>. QED BY <1>1, <1>4, <2>3, <2>4, TokensAre
<1>53. g12["--temp"] = c.temp
    <2>1. g12["--temp"] = IF v2 # None THEN v2 ELSE n["--temp"]
        BY <1>6, <1>9, <1>12, <1>15, <1>18, <1>21, <1>24, <1>27, <1>30, <1>33, <1>36, <1>38, FlagsAre DEF Heard
    <2>2. n["--temp"] = None BY <1>0, FlagsAre
    <2>3. PICK w : w = g12["--temp"] OBVIOUS
    <2>4. w = IF v2 # None THEN v2 ELSE None BY <2>1, <2>2, <2>3
    <2>. QED BY <1>1, <1>7, <2>3, <2>4, TokensAre
<1>54. g12["--reasoning"] = IF c.reasoning = "auto" THEN None ELSE c.reasoning
    <2>1. g12["--reasoning"] = IF v3 # None THEN v3 ELSE n["--reasoning"]
        BY <1>6, <1>9, <1>12, <1>15, <1>18, <1>21, <1>24, <1>27, <1>30, <1>33, <1>36, <1>38, FlagsAre DEF Heard
    <2>2. n["--reasoning"] = None BY <1>0, FlagsAre
    <2>3. PICK w : w = g12["--reasoning"] OBVIOUS
    <2>4. w = IF v3 # None THEN v3 ELSE None BY <2>1, <2>2, <2>3
    <2>. QED BY <1>1, <1>10, <2>3, <2>4, TokensAre
<1>55. g12["--spec-type"] = c.spec
    <2>1. g12["--spec-type"] = IF v4 # None THEN v4 ELSE n["--spec-type"]
        BY <1>6, <1>9, <1>12, <1>15, <1>18, <1>21, <1>24, <1>27, <1>30, <1>33, <1>36, <1>38, FlagsAre DEF Heard
    <2>2. n["--spec-type"] = None BY <1>0, FlagsAre
    <2>3. PICK w : w = g12["--spec-type"] OBVIOUS
    <2>4. w = IF v4 # None THEN v4 ELSE None BY <2>1, <2>2, <2>3
    <2>. QED BY <1>1, <1>13, <2>3, <2>4, TokensAre
<1>56. g12["--model-draft"] = c.draftModel
    <2>1. g12["--model-draft"] = IF v5 # None THEN v5 ELSE n["--model-draft"]
        BY <1>6, <1>9, <1>12, <1>15, <1>18, <1>21, <1>24, <1>27, <1>30, <1>33, <1>36, <1>38, FlagsAre DEF Heard
    <2>2. n["--model-draft"] = None BY <1>0, FlagsAre
    <2>3. PICK w : w = g12["--model-draft"] OBVIOUS
    <2>4. w = IF v5 # None THEN v5 ELSE None BY <2>1, <2>2, <2>3
    <2>. QED BY <1>1, <1>16, <2>3, <2>4, TokensAre
<1>57. g12["--draft-max"] = IF Drafts(c) THEN c.draftMax ELSE None
    <2>1. g12["--draft-max"] = IF v6 # None THEN v6 ELSE n["--draft-max"]
        BY <1>6, <1>9, <1>12, <1>15, <1>18, <1>21, <1>24, <1>27, <1>30, <1>33, <1>36, <1>38, FlagsAre DEF Heard
    <2>2. n["--draft-max"] = None BY <1>0, FlagsAre
    <2>3. PICK w : w = g12["--draft-max"] OBVIOUS
    <2>4. w = IF v6 # None THEN v6 ELSE None BY <2>1, <2>2, <2>3
    <2>. QED BY <1>1, <1>19, <2>3, <2>4, TokensAre
<1>58. g12["-dev"] = c.devices
    <2>1. g12["-dev"] = IF v8 # None THEN v8 ELSE n["-dev"]
        BY <1>6, <1>9, <1>12, <1>15, <1>18, <1>21, <1>24, <1>27, <1>30, <1>33, <1>36, <1>38, FlagsAre DEF Heard
    <2>2. n["-dev"] = None BY <1>0, FlagsAre
    <2>3. PICK w : w = g12["-dev"] OBVIOUS
    <2>4. w = IF v8 # None THEN v8 ELSE None BY <2>1, <2>2, <2>3
    <2>. QED BY <1>1, <1>25, <2>3, <2>4, TokensAre
<1>59. g12["--cont-batching"] = IF c.contBatching THEN "on" ELSE "off"
    <2>1. g12["--cont-batching"] = IF v9 # None THEN v9 ELSE n["--cont-batching"]
        BY <1>6, <1>9, <1>12, <1>15, <1>18, <1>21, <1>24, <1>27, <1>30, <1>33, <1>36, <1>38, FlagsAre DEF Heard
    <2>2. n["--cont-batching"] = "on" BY <1>0, FlagsAre
    <2>3. PICK w : w = g12["--cont-batching"] OBVIOUS
    <2>4. w = IF v9 # None THEN v9 ELSE "on" BY <2>1, <2>2, <2>3
    <2>. QED BY <1>1, <1>28, <2>3, <2>4, TokensAre
<1>60. g12["--jinja"] = IF c.jinja THEN "on" ELSE None
    <2>1. g12["--jinja"] = IF v10 # None THEN v10 ELSE n["--jinja"]
        BY <1>6, <1>9, <1>12, <1>15, <1>18, <1>21, <1>24, <1>27, <1>30, <1>33, <1>36, <1>38, FlagsAre DEF Heard
    <2>2. n["--jinja"] = None BY <1>0, FlagsAre
    <2>3. PICK w : w = g12["--jinja"] OBVIOUS
    <2>4. w = IF v10 # None THEN v10 ELSE None BY <2>1, <2>2, <2>3
    <2>. QED BY <1>1, <1>31, <2>3, <2>4, TokensAre
<1>61. g12["--metrics"] = IF c.metrics THEN "on" ELSE None
    <2>1. g12["--metrics"] = IF v11 # None THEN v11 ELSE n["--metrics"]
        BY <1>6, <1>9, <1>12, <1>15, <1>18, <1>21, <1>24, <1>27, <1>30, <1>33, <1>36, <1>38, FlagsAre DEF Heard
    <2>2. n["--metrics"] = None BY <1>0, FlagsAre
    <2>3. PICK w : w = g12["--metrics"] OBVIOUS
    <2>4. w = IF v11 # None THEN v11 ELSE None BY <2>1, <2>2, <2>3
    <2>. QED BY <1>1, <1>34, <2>3, <2>4, TokensAre
<1>62. g12["--verbose"] = IF c.extra = <<>> THEN None ELSE "on"
    BY <1>0, <1>37, <1>6, <1>9, <1>12, <1>15, <1>18, <1>21, <1>24, <1>27, <1>30, <1>33, <1>36, <1>38, FlagsAre DEF Heard
<1>63. g12["--models-dir"] = None
    BY <1>0, <1>6, <1>9, <1>12, <1>15, <1>18, <1>21, <1>24, <1>27, <1>30, <1>33, <1>36, <1>38, FlagsAre DEF Heard
<1>64. g12["--rpc"] = IF c.devices = "rpc0" THEN "endpoint" ELSE None
    <2>1. g12["--rpc"] = IF v7 # None THEN v7 ELSE n["--rpc"]
        BY <1>6, <1>9, <1>12, <1>15, <1>18, <1>21, <1>24, <1>27, <1>30, <1>33, <1>36, <1>38, FlagsAre DEF Heard
    <2>2. n["--rpc"] = None BY <1>0, FlagsAre
    <2>3. PICK w : w = g12["--rpc"] OBVIOUS
    <2>4. w = IF v7 # None THEN v7 ELSE None BY <2>1, <2>2, <2>3
    <2>. QED BY <1>22, <2>3, <2>4, TokensAre
<1>. QED
    BY <1>51, <1>52, <1>53, <1>54, <1>55, <1>56, <1>57, <1>58, <1>59, <1>60, <1>61, <1>62, <1>63, <1>64

-----------------------------------------------------------------------------
(* Whatever is typed, what is read of it are fields, and no raw command.     *)

FieldsKept(st) == \E c \in Fields, p \in Optional : c.override = <<>> /\ st = [cfg |-> c, pending |-> p]

LEMMA VerbatimKept ==
    ASSUME NEW c \in Fields, c.override = <<>>, NEW p, NEW st, st = [cfg |-> c, pending |-> p], NEW tok \in LineTokens
    PROVE  \E d \in Fields : d.override = <<>> /\ KeptVerbatim(st, tok) = [cfg |-> d, pending |-> None]
<1>1. PICK e : e = Append(c.extra, tok) OBVIOUS
<1>2. PICK d : d = [c EXCEPT !.extra = e] OBVIOUS
<1>3. e \in Seq(LineTokens)
    <2>1. c.extra \in Seq(LineTokens) BY DEF Fields
    <2>. QED BY <1>1, <2>1
<1>4. d \in Fields /\ d.override = c.override BY <1>2, <1>3 DEF Fields
<1>5. KeptVerbatim(st, tok) = [cfg |-> d, pending |-> None]
    <2>1. PICK o : o = KeptVerbatim(st, tok) OBVIOUS
    <2>2. o = [st EXCEPT !.cfg.extra = Append(@, tok), !.pending = None] BY <2>1 DEF KeptVerbatim
    <2>3. o = [cfg |-> [c EXCEPT !.extra = Append(c.extra, tok)], pending |-> None] BY <2>2 DEF Fields
    <2>. QED BY <1>1, <1>2, <2>1, <2>3
<1>. QED BY <1>4, <1>5

LEMMA BegunKept ==
    ASSUME NEW c \in Fields, c.override = <<>>, NEW p \in Optional, NEW st, st = [cfg |-> c, pending |-> p],
           NEW tok \in LineTokens
    PROVE  FieldsKept(Begun(st, tok))
<1>1. PICK flag : flag = Canonical(tok) OBVIOUS
<1>2. tok \in Optional BY TokensAre
<1>3. CASE flag \in ValueFlags \union {"--reasoning"}
    <2>1. Begun(st, tok) = [cfg |-> c, pending |-> tok]
        <3>1. Begun(st, tok) = [st EXCEPT !.pending = tok] BY <1>1, <1>3, FlagsAre DEF Begun
        <3>. QED BY <3>1
    <2>. QED BY <1>2, <2>1 DEF FieldsKept
<1>4. CASE flag = "--jinja"
    <2>1. PICK d : d = [c EXCEPT !.jinja = TRUE] OBVIOUS
    <2>2. Begun(st, tok) = [cfg |-> d, pending |-> p] BY <1>1, <1>4, <2>1, FlagsAre DEF Begun
    <2>3. d \in Fields /\ d.override = c.override BY <2>1 DEF Fields
    <2>. QED BY <2>2, <2>3 DEF FieldsKept
<1>5. CASE flag = "--metrics"
    <2>1. PICK d : d = [c EXCEPT !.metrics = TRUE] OBVIOUS
    <2>2. Begun(st, tok) = [cfg |-> d, pending |-> p] BY <1>1, <1>5, <2>1, FlagsAre DEF Begun
    <2>3. d \in Fields /\ d.override = c.override BY <2>1 DEF Fields
    <2>. QED BY <2>2, <2>3 DEF FieldsKept
<1>6. CASE flag = "--cont-batching"
    <2>1. PICK d : d = [c EXCEPT !.contBatching = TRUE] OBVIOUS
    <2>2. Begun(st, tok) = [cfg |-> d, pending |-> p] BY <1>1, <1>6, <2>1, FlagsAre DEF Begun
    <2>3. d \in Fields /\ d.override = c.override BY <2>1 DEF Fields
    <2>. QED BY <2>2, <2>3 DEF FieldsKept
<1>7. CASE flag = "--no-cont-batching"
    <2>1. PICK d : d = [c EXCEPT !.contBatching = FALSE] OBVIOUS
    <2>2. Begun(st, tok) = [cfg |-> d, pending |-> p] BY <1>1, <1>7, <2>1, FlagsAre DEF Begun
    <2>3. d \in Fields /\ d.override = c.override BY <2>1 DEF Fields
    <2>. QED BY <2>2, <2>3 DEF FieldsKept
<1>8. CASE flag \notin ValueFlags \union Switches \union {"--reasoning"}
    <2>1. Begun(st, tok) = [KeptVerbatim(st, tok) EXCEPT !.pending = tok] BY <1>1, <1>8, FlagsAre DEF Begun
    <2>2. PICK d \in Fields : d.override = <<>> /\ KeptVerbatim(st, tok) = [cfg |-> d, pending |-> None]
        BY VerbatimKept
    <2>3. Begun(st, tok) = [cfg |-> d, pending |-> tok] BY <2>1, <2>2
    <2>. QED BY <1>2, <2>2, <2>3 DEF FieldsKept
<1>. QED BY <1>3, <1>4, <1>5, <1>6, <1>7, <1>8, FlagsAre

LEMMA AssignedKept ==
    ASSUME NEW c \in Fields, c.override = <<>>, NEW p, NEW st, st = [cfg |-> c, pending |-> p],
           NEW flag \in ValueFlags, NEW tok \in LineTokens
    PROVE  FieldsKept(Assigned(st, flag, tok))
<1>1. tok \in Optional /\ None \in Optional BY TokensAre
<1>2. CASE flag = "--rpc"
    <2>1. Assigned(st, flag, tok) = [cfg |-> c, pending |-> None] BY <1>2 DEF Assigned
    <2>. QED BY <1>1, <2>1 DEF FieldsKept
<1>3. CASE flag = "--models-dir"
    <2>1. PICK d : d = [c EXCEPT !.modelsDir = tok, !.mode = "router"] OBVIOUS
    <2>2. Assigned(st, flag, tok) = [cfg |-> d, pending |-> None] BY <1>3, <2>1 DEF Assigned, Fields
    <2>3. d \in Fields /\ d.override = c.override BY <1>1, <2>1 DEF Fields
    <2>. QED BY <1>1, <2>2, <2>3 DEF FieldsKept
<1>4. CASE flag = "--model"
    <2>1. PICK d : d = [c EXCEPT !.model = tok] OBVIOUS
    <2>2. Assigned(st, flag, tok) = [cfg |-> d, pending |-> None] BY <1>4, <2>1, FieldsAre DEF Assigned, Fields
    <2>3. d \in Fields /\ d.override = c.override BY <1>1, <2>1 DEF Fields
    <2>. QED BY <1>1, <2>2, <2>3 DEF FieldsKept
<1>5. CASE flag = "--temp"
    <2>1. PICK d : d = [c EXCEPT !.temp = tok] OBVIOUS
    <2>2. Assigned(st, flag, tok) = [cfg |-> d, pending |-> None] BY <1>5, <2>1, FieldsAre DEF Assigned, Fields
    <2>3. d \in Fields /\ d.override = c.override BY <1>1, <2>1 DEF Fields
    <2>. QED BY <1>1, <2>2, <2>3 DEF FieldsKept
<1>6. CASE flag = "--model-draft"
    <2>1. PICK d : d = [c EXCEPT !.draftModel = tok] OBVIOUS
    <2>2. Assigned(st, flag, tok) = [cfg |-> d, pending |-> None] BY <1>6, <2>1, FieldsAre DEF Assigned, Fields
    <2>3. d \in Fields /\ d.override = c.override BY <1>1, <2>1 DEF Fields
    <2>. QED BY <1>1, <2>2, <2>3 DEF FieldsKept
<1>7. CASE flag = "--spec-type"
    <2>1. PICK d : d = [c EXCEPT !.spec = tok] OBVIOUS
    <2>2. Assigned(st, flag, tok) = [cfg |-> d, pending |-> None] BY <1>7, <2>1, FieldsAre DEF Assigned, Fields
    <2>3. d \in Fields /\ d.override = c.override BY <1>1, <2>1 DEF Fields
    <2>. QED BY <1>1, <2>2, <2>3 DEF FieldsKept
<1>8. CASE flag = "--draft-max"
    <2>1. PICK d : d = [c EXCEPT !.draftMax = tok] OBVIOUS
    <2>2. Assigned(st, flag, tok) = [cfg |-> d, pending |-> None] BY <1>8, <2>1, FieldsAre DEF Assigned, Fields
    <2>3. d \in Fields /\ d.override = c.override BY <1>1, <2>1 DEF Fields
    <2>. QED BY <1>1, <2>2, <2>3 DEF FieldsKept
<1>9. CASE flag = "-dev"
    <2>1. PICK d : d = [c EXCEPT !.devices = tok] OBVIOUS
    <2>2. Assigned(st, flag, tok) = [cfg |-> d, pending |-> None] BY <1>9, <2>1, FieldsAre DEF Assigned, Fields
    <2>3. d \in Fields /\ d.override = c.override BY <1>1, <2>1 DEF Fields
    <2>. QED BY <1>1, <2>2, <2>3 DEF FieldsKept
<1>. QED BY <1>2, <1>3, <1>4, <1>5, <1>6, <1>7, <1>8, <1>9, FlagsAre

LEMMA TakenKept ==
    ASSUME NEW st, FieldsKept(st), NEW tok \in LineTokens
    PROVE  FieldsKept(Taken(st, tok))
<1>1. PICK c \in Fields, p \in Optional : c.override = <<>> /\ st = [cfg |-> c, pending |-> p] BY DEF FieldsKept
<1>2. PICK flag : flag = Canonical(p) OBVIOUS
<1>3. PICK blank : blank = [cfg |-> c, pending |-> None] OBVIOUS
<1>4. None \in Optional BY TokensAre
<1>5. CASE flag = None
    <2>1. Taken(st, tok) = Begun(st, tok) BY <1>1, <1>2, <1>5, FlagsAre DEF Taken
    <2>. QED BY <1>1, <2>1, BegunKept
<1>6. CASE flag \in ValueFlags
    <2>1. flag # None BY <1>6, FlagsAre
    <2>2. Taken(st, tok) = Assigned(st, flag, tok) BY <1>1, <1>2, <1>6, <2>1, FlagsAre DEF Taken
    <2>. QED BY <1>1, <1>6, <2>2, AssignedKept
<1>7. CASE flag = "--reasoning" /\ tok \in {"on", "off", "auto"}
    <2>1. PICK d : d = [c EXCEPT !.reasoning = tok] OBVIOUS
    <2>2. Taken(st, tok) = [st EXCEPT !.cfg.reasoning = tok, !.pending = None]
        BY <1>1, <1>2, <1>7, FlagsAre DEF Taken
    <2>3. Taken(st, tok) = [cfg |-> d, pending |-> None] BY <1>1, <2>1, <2>2
    <2>4. d \in Fields /\ d.override = c.override BY <2>1 DEF Fields
    <2>. QED BY <1>1, <1>4, <2>3, <2>4 DEF FieldsKept
<1>8. CASE flag = "--reasoning" /\ tok \notin {"on", "off", "auto"}
    <2>1. PICK d : d = [c EXCEPT !.reasoning = "on"] OBVIOUS
    <2>2. PICK s : s = [st EXCEPT !.cfg.reasoning = "on", !.pending = None] OBVIOUS
    <2>3. s = [cfg |-> d, pending |-> None] BY <1>1, <2>1, <2>2
    <2>4. Taken(st, tok) = Begun(s, tok) BY <1>1, <1>2, <1>8, <2>2, FlagsAre DEF Taken
    <2>5. d \in Fields /\ d.override = <<>>
        <3>1. "on" \in LineTokens BY TokensAre
        <3>. QED BY <1>1, <2>1, <3>1 DEF Fields
    <2>. QED BY <1>4, <2>3, <2>4, <2>5, BegunKept
<1>9. CASE flag \notin ValueFlags \union {None, "--reasoning"} /\ IsFlag(tok)
    <2>1. Taken(st, tok) = Begun([st EXCEPT !.pending = None], tok) BY <1>1, <1>2, <1>9, FlagsAre DEF Taken
    <2>2. [st EXCEPT !.pending = None] = blank BY <1>1, <1>3
    <2>3. Taken(st, tok) = Begun(blank, tok) BY <2>1, <2>2
    <2>. QED BY <1>1, <1>3, <1>4, <2>3, BegunKept
<1>10. CASE flag \notin ValueFlags \union {None, "--reasoning"} /\ ~IsFlag(tok)
    <2>1. Taken(st, tok) = KeptVerbatim(st, tok) BY <1>1, <1>2, <1>10, FlagsAre DEF Taken
    <2>2. PICK d \in Fields : d.override = <<>> /\ KeptVerbatim(st, tok) = [cfg |-> d, pending |-> None]
        BY <1>1, VerbatimKept
    <2>. QED BY <1>4, <2>1, <2>2 DEF FieldsKept
<1>. QED BY <1>5, <1>6, <1>7, <1>8, <1>9, <1>10

\* from_argv() always ends, in a configuration.
LEMMA LineIsFields ==
    ASSUME NEW argv \in Seq(LineTokens)
    PROVE  FromArgv(argv) \in Fields /\ FromArgv(argv).override = <<>>
<1>1. PICK base : base = [cfg |-> Blank, pending |-> None] OBVIOUS
<1>. DEFINE st(i) == After("token", base, argv, i)
<1>2. PICK n : n = Len(argv) OBVIOUS
<1>3. n \in Nat /\ DOMAIN argv = 1..n /\ \A i \in 1..n : argv[i] \in LineTokens BY <1>2
<1>. DEFINE T == {i \in 0..n : FieldsKept(st(i))}
<1>4. 0 \in T
    <2>1. st(0) = base BY <1>3, AfterNone
    <2>2. Blank \in Fields /\ Blank.override = <<>>
        <3>1. <<>> \in Seq(LineTokens) OBVIOUS
        <3>2. PICK c : c = Blank OBVIOUS
        <3>3. c \in Fields BY <3>1, <3>2, TokensAre DEF Blank, Defaults, Fields
        <3>4. c.override = <<>> BY <3>2 DEF Blank, Defaults
        <3>. QED BY <3>2, <3>3, <3>4
    <2>3. FieldsKept(base) BY <1>1, <2>2, TokensAre DEF FieldsKept
    <2>4. 0 \in 0..n BY <1>3
    <2>. HIDE DEF st
    <2>. QED BY <2>1, <2>3, <2>4
<1>5. ASSUME NEW i \in 0..(n - 1), i \in T PROVE i + 1 \in T
    <2>1. PICK j : j = i + 1 OBVIOUS
    <2>2. j \in 1..n /\ j - 1 = i /\ j \in 0..n BY <1>3, <2>1
    <2>3. st(j) = Step("token", st(j - 1), argv[j]) BY <1>3, <2>2, AfterOneMore
    <2>4. st(j) = Taken(st(i), argv[j]) BY <2>2, <2>3 DEF Step
    <2>. HIDE DEF st
    <2>5. FieldsKept(st(i)) /\ argv[j] \in LineTokens BY <1>3, <1>5, <2>2
    <2>6. FieldsKept(st(j)) BY <2>4, <2>5, TakenKept
    <2>. QED BY <2>1, <2>2, <2>6
<1>6. n \in T
    <2>. HIDE DEF T
    <2>. QED BY <1>3, <1>4, <1>5, Reached
<1>7. PICK s : s = st(n) OBVIOUS
<1>8. FromArgv(argv) = Ended(s) BY <1>1, <1>3, <1>7, FoldOfTokens DEF FromArgv
<1>9. PICK c \in Fields, p \in Optional : c.override = <<>> /\ s = [cfg |-> c, pending |-> p]
    BY <1>6, <1>7 DEF FieldsKept
<1>. HIDE DEF st, T
<1>10. CASE Canonical(p) \in ValueFlags
    <2>1. p \in LineTokens BY <1>9, <1>10, FlagsAre, TokensAre DEF Canonical
    <2>2. PICK d \in Fields : d.override = <<>> /\ KeptVerbatim(s, p) = [cfg |-> d, pending |-> None]
        BY <1>9, <2>1, VerbatimKept
    <2>3. Ended(s) = d BY <1>9, <1>10, <2>2, FlagsAre DEF Ended, Canonical
    <2>. QED BY <1>8, <2>2, <2>3
<1>11. CASE p = "--reasoning"
    <2>1. PICK d : d = [c EXCEPT !.reasoning = "on"] OBVIOUS
    <2>2. Ended(s) = d BY <1>9, <1>11, <2>1, FlagsAre DEF Ended, Canonical
    <2>3. "on" \in LineTokens BY TokensAre
    <2>4. d \in Fields /\ d.override = c.override BY <2>1, <2>3 DEF Fields
    <2>. QED BY <1>8, <1>9, <2>2, <2>4
<1>12. CASE p # "--reasoning" /\ Canonical(p) \notin ValueFlags
    <2>1. Ended(s) = c BY <1>9, <1>12 DEF Ended
    <2>. QED BY <1>8, <1>9, <2>1
<1>. QED BY <1>10, <1>11, <1>12

\* merge_command() names the kind of speculation where a drafter is given.
LEMMA MergedIs ==
    ASSUME NEW argv \in Seq(LineTokens), NEW c, c = FromArgv(argv), NEW m, m = Merged(argv)
    PROVE  /\ c \in Fields /\ m \in Fields /\ m.override = <<>>
           /\ m.spec = IF c.draftModel # None /\ c.spec = None THEN "draft" ELSE c.spec
           /\ m.model = c.model /\ m.temp = c.temp /\ m.reasoning = c.reasoning /\ m.draftModel = c.draftModel
           /\ m.draftMax = c.draftMax /\ m.devices = c.devices /\ m.modelsDir = c.modelsDir /\ m.mode = c.mode
           /\ m.contBatching = c.contBatching /\ m.jinja = c.jinja /\ m.metrics = c.metrics /\ m.extra = c.extra
<1>1. c \in Fields /\ c.override = <<>> BY LineIsFields
<1>2. CASE c.draftModel # None /\ c.spec = None
    <2>1. m = [c EXCEPT !.spec = "draft"] BY <1>2 DEF Merged
    <2>2. "draft" \in Optional BY TokensAre
    <2>. QED BY <1>1, <1>2, <2>1, <2>2 DEF Fields
<1>3. CASE ~(c.draftModel # None /\ c.spec = None)
    <2>1. m = c BY <1>3 DEF Merged
    <2>. QED BY <1>1, <1>3, <2>1
<1>. QED BY <1>2, <1>3

\* The command of a preset that serves a directory.
LEMMA RouterIsSaid ==
    ASSUME NEW c \in Fields, c.extra \in Seq({"--verbose"})
    PROVE  \E gl : /\ Speaks(RouterArgv(c), NothingSaid, gl)
                   /\ gl["--models-dir"] = c.modelsDir
                   /\ gl["--metrics"] = IF c.metrics THEN "on" ELSE None
                   /\ gl["--verbose"] = IF c.extra = <<>> THEN None ELSE "on"
                   /\ \A f \in Flags \ {"--models-dir", "--metrics", "--verbose"} : gl[f] = NothingSaid[f]
<1>1. c.modelsDir \in Optional /\ c.metrics \in BOOLEAN BY DEF Fields
<1>2. PICK n : n = NothingSaid OBVIOUS
<1>3. n \in [Flags -> Optional] BY <1>2, NothingSaidIs
<1>4. \A f \in Flags : n[f] = IF f = "--cont-batching" THEN "on" ELSE None BY <1>2, NothingSaidIs
<1>5. PICK v1 : v1 = c.modelsDir OBVIOUS
<1>6. PICK q1 : q1 = When(c.modelsDir # None, <<"--models-dir", c.modelsDir>>) OBVIOUS
<1>7. PICK g1 : Heard(q1, v1, "--models-dir", n, g1)
    <2>1. PICK flag : flag = "--models-dir" OBVIOUS
    <2>2. flag \in ValueFlags \union {"--reasoning"} BY <2>1, FlagsAre
    <2>3. v1 \in Optional /\ (flag = "--reasoning" => v1 \in {None, "on", "off"}) BY <1>1, <1>5, <2>1, TokensAre
    <2>4. q1 = IF v1 = None THEN <<>> ELSE <<flag, v1>> BY <1>1, <1>5, <1>6, <2>1, TokensAre DEF When
    <2>5. SaysOf(q1, v1, flag) BY <2>2, <2>3, <2>4 DEF SaysOf
    <2>. QED BY <1>3, <2>1, <2>5, FlagHeard
<1>8. PICK v2 : v2 = IF c.metrics THEN "on" ELSE None OBVIOUS
<1>9. PICK q2 : q2 = When(c.metrics, <<"--metrics">>) OBVIOUS
<1>10. PICK g2 : Heard(q2, v2, "--metrics", g1, g2)
    <2>1. PICK tok : tok = "--metrics" OBVIOUS
    <2>2. tok \in Switches /\ tok = (IF tok = "--no-cont-batching" THEN "--cont-batching" ELSE tok)
        BY <2>1, FlagsAre
    <2>3. v2 \in {None, IF tok = "--no-cont-batching" THEN "off" ELSE "on"} BY <1>1, <1>8, <2>1
    <2>4. q2 = IF v2 = None THEN <<>> ELSE <<tok>> BY <1>1, <1>8, <1>9, <2>1 DEF When, None
    <2>5. SaysSwitch(q2, v2, tok, tok) BY <2>2, <2>3, <2>4 DEF SaysSwitch
    <2>6. g1 \in [Flags -> Optional] BY <1>7 DEF Heard
    <2>. QED BY <2>1, <2>5, <2>6, SwitchHeard
<1>11. PICK q3 : q3 = c.extra OBVIOUS
<1>12. PICK g3 \in [Flags -> Optional] :
        Speaks(q3, g2, g3) /\ \A f \in Flags : g3[f] = IF q3 # <<>> /\ f = "--verbose" THEN "on" ELSE g2[f]
    <2>1. q3 \in Seq({"--verbose"}) BY <1>11
    <2>2. g2 \in [Flags -> Optional] BY <1>10 DEF Heard
    <2>. QED BY <2>1, <2>2, SpeaksExtra
<1>13. RouterArgv(c) = q1 \o q2 \o q3 BY <1>6, <1>9, <1>11 DEF RouterArgv
<1>14. Speaks(q1 \o q2, n, g2) BY <1>7, <1>10, SpeaksInTurn DEF Heard
<1>15. Speaks(q1 \o q2 \o q3, n, g3) BY <1>12, <1>14, SpeaksInTurn
<1>16. Speaks(RouterArgv(c), NothingSaid, g3) BY <1>2, <1>13, <1>15
<1>17. g3["--models-dir"] = c.modelsDir
    <2>1. g3["--models-dir"] = IF v1 # None THEN v1 ELSE n["--models-dir"]
        BY <1>7, <1>10, <1>12, FlagsAre DEF Heard
    <2>2. n["--models-dir"] = None BY <1>4, FlagsAre
    <2>. QED BY <1>5, <2>1, <2>2
<1>18. g3["--metrics"] = IF c.metrics THEN "on" ELSE None
    <2>1. g3["--metrics"] = IF v2 # None THEN v2 ELSE n["--metrics"]
        BY <1>7, <1>10, <1>12, FlagsAre DEF Heard
    <2>2. n["--metrics"] = None BY <1>4, FlagsAre
    <2>. QED BY <1>8, <2>1, <2>2
<1>19. g3["--verbose"] = IF c.extra = <<>> THEN None ELSE "on"
    BY <1>4, <1>7, <1>10, <1>11, <1>12, FlagsAre DEF Heard
<1>20. \A f \in Flags \ {"--models-dir", "--metrics", "--verbose"} : g3[f] = n[f]
    BY <1>7, <1>10, <1>12, FlagsAre DEF Heard
<1>. QED BY <1>2, <1>16, <1>17, <1>18, <1>19, <1>20

\* Limits of drafts count with a drafter only.
LEMMA EffectIs ==
    ASSUME NEW argv, NEW fl, fl \in [Flags -> Optional],
           fl = FoldLeft(Said, [flags |-> NothingSaid, pending |-> None], argv).flags,
           NEW e, e = Effect(argv)
    PROVE  \A f \in Flags :
              e[f] = IF f = "--draft-max" /\ fl["--model-draft"] = None /\ fl["--spec-type"] = None THEN None ELSE fl[f]
<1>1. CASE fl["--model-draft"] = None /\ fl["--spec-type"] = None
    <2>1. e = [fl EXCEPT !["--draft-max"] = None] BY <1>1 DEF Effect
    <2>. QED BY <1>1, <2>1
<1>2. CASE ~(fl["--model-draft"] = None /\ fl["--spec-type"] = None)
    <2>1. e = fl BY <1>2 DEF Effect
    <2>. QED BY <1>2, <2>1
<1>. QED BY <1>1, <1>2

\* What to_argv() writes are words.
LEMMA ArgvIsWords ==
    ASSUME NEW c \in Fields
    PROVE  ToArgv(c) \in Seq(LineTokens)
<1>1. ASSUME NEW a \in Seq(LineTokens), NEW b \in Seq(LineTokens) PROVE a \o b \in Seq(LineTokens)
    BY ConcatProperties
<1>2. ASSUME NEW x \in LineTokens PROVE <<x>> \in Seq(LineTokens) OBVIOUS
<1>3. ASSUME NEW x \in LineTokens, NEW y \in LineTokens PROVE <<x, y>> \in Seq(LineTokens) OBVIOUS
<1>4. <<>> \in Seq(LineTokens) OBVIOUS
<1>5. /\ c.model \in Optional /\ c.temp \in LineTokens /\ c.draftModel \in Optional /\ c.spec \in Optional
      /\ c.reasoning \in LineTokens /\ c.draftMax \in Optional /\ c.devices \in Optional /\ c.modelsDir \in Optional
      /\ c.extra \in Seq(LineTokens) /\ c.override \in Seq(LineTokens)
    BY DEF Fields
<1>6. PICK q1 : q1 = When(c.model # None, <<"--model", c.model>>) OBVIOUS
<1>7. q1 \in Seq(LineTokens) BY <1>2, <1>3, <1>4, <1>5, <1>6, TokensAre DEF When
<1>8. PICK q2 : q2 = <<"--temp", c.temp>> OBVIOUS
<1>9. q2 \in Seq(LineTokens) BY <1>2, <1>3, <1>4, <1>5, <1>8, TokensAre DEF When
<1>10. PICK q3 : q3 = When(c.reasoning # "auto", <<"--reasoning", c.reasoning>>) OBVIOUS
<1>11. q3 \in Seq(LineTokens) BY <1>2, <1>3, <1>4, <1>5, <1>10, TokensAre DEF When
<1>12. PICK q4 : q4 = When(c.spec # None, <<"--spec-type", c.spec>>) OBVIOUS
<1>13. q4 \in Seq(LineTokens) BY <1>2, <1>3, <1>4, <1>5, <1>12, TokensAre DEF When
<1>14. PICK q5 : q5 = When(c.draftModel # None, <<"--model-draft", c.draftModel>>) OBVIOUS
<1>15. q5 \in Seq(LineTokens) BY <1>2, <1>3, <1>4, <1>5, <1>14, TokensAre DEF When
<1>16. PICK q6 : q6 = When(c.draftMax # None /\ Drafts(c), <<"--draft-max", c.draftMax>>) OBVIOUS
<1>17. q6 \in Seq(LineTokens) BY <1>2, <1>3, <1>4, <1>5, <1>16, TokensAre DEF When
<1>18. PICK q7 : q7 = When(c.devices = "rpc0", <<"--rpc", "endpoint">>) OBVIOUS
<1>19. q7 \in Seq(LineTokens) BY <1>2, <1>3, <1>4, <1>5, <1>18, TokensAre DEF When
<1>20. PICK q8 : q8 = When(c.devices # None, <<"-dev", c.devices>>) OBVIOUS
<1>21. q8 \in Seq(LineTokens) BY <1>2, <1>3, <1>4, <1>5, <1>20, TokensAre DEF When
<1>22. PICK q9 : q9 = When(~c.contBatching, <<"--no-cont-batching">>) OBVIOUS
<1>23. q9 \in Seq(LineTokens) BY <1>2, <1>3, <1>4, <1>5, <1>22, TokensAre DEF When
<1>24. PICK q10 : q10 = When(c.jinja, <<"--jinja">>) OBVIOUS
<1>25. q10 \in Seq(LineTokens) BY <1>2, <1>3, <1>4, <1>5, <1>24, TokensAre DEF When
<1>26. PICK q11 : q11 = When(c.metrics, <<"--metrics">>) OBVIOUS
<1>27. q11 \in Seq(LineTokens) BY <1>2, <1>3, <1>4, <1>5, <1>26, TokensAre DEF When
<1>28. PICK q12 : q12 = When(c.modelsDir # None, <<"--models-dir", c.modelsDir>>) OBVIOUS
<1>29. q12 \in Seq(LineTokens) BY <1>2, <1>3, <1>4, <1>5, <1>28, TokensAre DEF When
<1>30. RouterArgv(c) \in Seq(LineTokens)
    <2>1. PICK r1 : r1 = q12 \o q11 OBVIOUS
    <2>2. r1 \in Seq(LineTokens) BY <1>1, <1>27, <1>29, <2>1
    <2>3. PICK r2 : r2 = r1 \o c.extra OBVIOUS
    <2>4. r2 \in Seq(LineTokens) BY <1>1, <1>5, <2>2, <2>3
    <2>. QED BY <1>26, <1>28, <2>1, <2>3, <2>4 DEF RouterArgv
<1>31. SingleArgv(c) \in Seq(LineTokens)
    <2>1. PICK r2 : r2 = q1 \o q2 OBVIOUS
    <2>2. r2 \in Seq(LineTokens) BY <1>1, <1>7, <1>9, <2>1
    <2>3. PICK r3 : r3 = r2 \o q3 OBVIOUS
    <2>4. r3 \in Seq(LineTokens) BY <1>1, <2>2, <1>11, <2>3
    <2>5. PICK r4 : r4 = r3 \o q4 OBVIOUS
    <2>6. r4 \in Seq(LineTokens) BY <1>1, <2>4, <1>13, <2>5
    <2>7. PICK r5 : r5 = r4 \o q5 OBVIOUS
    <2>8. r5 \in Seq(LineTokens) BY <1>1, <2>6, <1>15, <2>7
    <2>9. PICK r6 : r6 = r5 \o q6 OBVIOUS
    <2>10. r6 \in Seq(LineTokens) BY <1>1, <2>8, <1>17, <2>9
    <2>11. PICK r7 : r7 = r6 \o q7 OBVIOUS
    <2>12. r7 \in Seq(LineTokens) BY <1>1, <2>10, <1>19, <2>11
    <2>13. PICK r8 : r8 = r7 \o q8 OBVIOUS
    <2>14. r8 \in Seq(LineTokens) BY <1>1, <2>12, <1>21, <2>13
    <2>15. PICK r9 : r9 = r8 \o q9 OBVIOUS
    <2>16. r9 \in Seq(LineTokens) BY <1>1, <2>14, <1>23, <2>15
    <2>17. PICK r10 : r10 = r9 \o q10 OBVIOUS
    <2>18. r10 \in Seq(LineTokens) BY <1>1, <2>16, <1>25, <2>17
    <2>19. PICK r11 : r11 = r10 \o q11 OBVIOUS
    <2>20. r11 \in Seq(LineTokens) BY <1>1, <2>18, <1>27, <2>19
    <2>21. PICK r12 : r12 = r11 \o c.extra OBVIOUS
    <2>22. r12 \in Seq(LineTokens) BY <1>1, <2>20, <1>5, <2>21
    <2>23. SingleArgv(c) = r12
        BY <1>6, <1>8, <1>10, <1>12, <1>14, <1>16, <1>18, <1>20, <1>22, <1>24, <1>26,
           <2>1, <2>3, <2>5, <2>7, <2>9, <2>11, <2>13, <2>15, <2>17, <2>19, <2>21
        DEF SingleArgv
    <2>. QED BY <2>23, <2>22
<1>. QED BY <1>5, <1>30, <1>31 DEF ToArgv

-----------------------------------------------------------------------------
(* What a command says, the fields that are read of it, and what the command *)
(* that is written from those fields says.                                   *)

\* A line that has been read to its end.
LEMMA LineSaid ==
    ASSUME NEW q, NEW gl, Speaks(q, NothingSaid, gl)
    PROVE  gl \in [Flags -> Optional] /\ gl = FoldLeft(Said, [flags |-> NothingSaid, pending |-> None], q).flags
BY DEF Speaks

\* The command of the fields says what the fields are.
LEMMA FieldsAreSaid ==
    ASSUME NEW m \in Fields, m.override = <<>>, m.mode = "single", m.extra \in Seq({"--verbose"}),
           m.reasoning \in {"auto", "on", "off"}, NEW a, a = Effect(ToArgv(m))
    PROVE  /\ a["--model"] = m.model /\ a["--temp"] = m.temp
           /\ a["--reasoning"] = IF m.reasoning = "auto" THEN None ELSE m.reasoning
           /\ a["--spec-type"] = m.spec /\ a["--model-draft"] = m.draftModel
           /\ a["--draft-max"] = IF Drafts(m) THEN m.draftMax ELSE None
           /\ a["-dev"] = m.devices
           /\ a["--cont-batching"] = IF m.contBatching THEN "on" ELSE "off"
           /\ a["--jinja"] = IF m.jinja THEN "on" ELSE None
           /\ a["--metrics"] = IF m.metrics THEN "on" ELSE None
           /\ a["--verbose"] = IF m.extra = <<>> THEN None ELSE "on"
           /\ a["--models-dir"] = None
           /\ a["--rpc"] = Endpoints(m)
<1>1. PICK q : q = ToArgv(m) OBVIOUS
<1>2. q = SingleArgv(m) BY <1>1 DEF ToArgv
<1>3. PICK gl : /\ Speaks(q, NothingSaid, gl)
                /\ gl["--model"] = m.model /\ gl["--temp"] = m.temp
                /\ gl["--reasoning"] = IF m.reasoning = "auto" THEN None ELSE m.reasoning
                /\ gl["--spec-type"] = m.spec /\ gl["--model-draft"] = m.draftModel
                /\ gl["--draft-max"] = IF Drafts(m) THEN m.draftMax ELSE None
                /\ gl["-dev"] = m.devices
                /\ gl["--cont-batching"] = IF m.contBatching THEN "on" ELSE "off"
                /\ gl["--jinja"] = IF m.jinja THEN "on" ELSE None
                /\ gl["--metrics"] = IF m.metrics THEN "on" ELSE None
                /\ gl["--verbose"] = IF m.extra = <<>> THEN None ELSE "on"
                /\ gl["--models-dir"] = None
                /\ gl["--rpc"] = IF m.devices = "rpc0" THEN "endpoint" ELSE None
    BY <1>2, SingleIsSaid
<1>4. gl \in [Flags -> Optional] /\ gl = FoldLeft(Said, [flags |-> NothingSaid, pending |-> None], q).flags
    BY <1>3, LineSaid
<1>5. a = Effect(q) BY <1>1
<1>6. \A f \in Flags :
        a[f] = IF f = "--draft-max" /\ gl["--model-draft"] = None /\ gl["--spec-type"] = None THEN None ELSE gl[f]
    BY <1>4, <1>5, EffectIs
<1>7. \A f \in Flags : a[f] = gl[f]
    <2>1. gl["--model-draft"] = None /\ gl["--spec-type"] = None => gl["--draft-max"] = None
        BY <1>3 DEF Drafts
    <2>. QED BY <1>6, <2>1
<1>. QED BY <1>3, <1>7, FlagsAre DEF Endpoints

\* So does the command of a directory, of what it says at all.
LEMMA DirectoryIsSaid ==
    ASSUME NEW m \in Fields, m.override = <<>>, m.mode = "router", m.extra \in Seq({"--verbose"}),
           NEW a, a = Effect(ToArgv(m))
    PROVE  /\ a["--models-dir"] = m.modelsDir
           /\ a["--metrics"] = IF m.metrics THEN "on" ELSE None
           /\ a["--verbose"] = IF m.extra = <<>> THEN None ELSE "on"
           /\ \A f \in Flags \ {"--models-dir", "--metrics", "--verbose"} : a[f] = NothingSaid[f]
<1>1. PICK q : q = ToArgv(m) OBVIOUS
<1>2. q = RouterArgv(m) BY <1>1 DEF ToArgv
<1>3. PICK gl : /\ Speaks(q, NothingSaid, gl)
                /\ gl["--models-dir"] = m.modelsDir
                /\ gl["--metrics"] = IF m.metrics THEN "on" ELSE None
                /\ gl["--verbose"] = IF m.extra = <<>> THEN None ELSE "on"
                /\ \A f \in Flags \ {"--models-dir", "--metrics", "--verbose"} : gl[f] = NothingSaid[f]
    BY <1>2, RouterIsSaid
<1>4. gl \in [Flags -> Optional] /\ gl = FoldLeft(Said, [flags |-> NothingSaid, pending |-> None], q).flags
    BY <1>3, LineSaid
<1>5. a = Effect(q) BY <1>1
<1>6. \A f \in Flags :
        a[f] = IF f = "--draft-max" /\ gl["--model-draft"] = None /\ gl["--spec-type"] = None THEN None ELSE gl[f]
    BY <1>4, <1>5, EffectIs
<1>7. \A f \in Flags : a[f] = gl[f]
    <2>1. gl["--draft-max"] = None BY <1>3, NothingSaidIs, FlagsAre
    <2>. QED BY <1>6, <2>1
<1>. QED BY <1>3, <1>7, FlagsAre

LEMMA CommandRewritten ==
    ASSUME NEW argv \in Seq(LineTokens), Accepted(argv), NEW m, m = Merged(argv),
           NEW e, e = Effect(argv), NEW a, a = Effect(ToArgv(m))
    PROVE  /\ \A f \in DOMAIN FieldOf : e[f] # None => m[FieldOf[f]] = e[f]
           /\ e["--jinja"] = IF m.jinja THEN "on" ELSE None
           /\ e["--metrics"] = IF m.metrics THEN "on" ELSE None
           /\ \A f \in Named : e[f] # None => a[f] = e[f]
           /\ \A f \in Named \ Invented : a[f] = e[f]
           /\ a["--rpc"] = Endpoints(m)
<1>1. PICK c : c = FromArgv(argv) OBVIOUS
<1>2. PICK fl : fl = FoldLeft(Said, [flags |-> NothingSaid, pending |-> None], argv).flags OBVIOUS
<1>3. Matches(c, fl) /\ Reasons(c, fl) BY <1>1, <1>2, LineRead
<1>4. /\ c \in Fields /\ m \in Fields /\ m.override = <<>>
      /\ m.spec = IF c.draftModel # None /\ c.spec = None THEN "draft" ELSE c.spec
      /\ m.model = c.model /\ m.temp = c.temp /\ m.reasoning = c.reasoning /\ m.draftModel = c.draftModel
      /\ m.draftMax = c.draftMax /\ m.devices = c.devices /\ m.modelsDir = c.modelsDir /\ m.mode = c.mode
      /\ m.contBatching = c.contBatching /\ m.jinja = c.jinja /\ m.metrics = c.metrics /\ m.extra = c.extra
    BY <1>1, MergedIs
<1>5. fl \in [Flags -> Optional] BY <1>3 DEF Matches
<1>6. \A f \in Flags :
        e[f] = IF f = "--draft-max" /\ fl["--model-draft"] = None /\ fl["--spec-type"] = None THEN None ELSE fl[f]
    BY <1>2, <1>5, EffectIs
<1>7. /\ e["--model"] = m.model /\ e["--model-draft"] = m.draftModel
      /\ e["--spec-type"] = c.spec /\ (c.spec # None => m.spec = c.spec)
      /\ e["-dev"] = m.devices /\ e["--models-dir"] = m.modelsDir
      /\ m.temp = IF e["--temp"] = None THEN "x" ELSE e["--temp"]
      /\ m.mode = IF e["--models-dir"] = None THEN "single" ELSE "router"
      /\ e["--jinja"] = IF m.jinja THEN "on" ELSE None
      /\ e["--metrics"] = IF m.metrics THEN "on" ELSE None
      /\ e["--cont-batching"] = IF m.contBatching THEN "on" ELSE "off"
      /\ m.extra \in Seq({"--verbose"})
      /\ e["--verbose"] = IF m.extra = <<>> THEN None ELSE "on"
    BY <1>3, <1>4, <1>6, FlagsAre DEF Matches
<1>8. e["--draft-max"] = IF Drafts(m) THEN m.draftMax ELSE None
    <2>1. c.draftMax = fl["--draft-max"] /\ c.draftModel = fl["--model-draft"] /\ c.spec = fl["--spec-type"]
        BY <1>3 DEF Matches
    <2>2. e["--draft-max"] = IF c.draftModel = None /\ c.spec = None THEN None ELSE c.draftMax
        BY <1>6, <2>1, FlagsAre
    <2>3. Drafts(m) <=> ~(c.draftModel = None /\ c.spec = None)
        <3>1. "draft" # None BY FlagsAre
        <3>. QED BY <1>4, <3>1 DEF Drafts
    <2>. QED BY <1>4, <2>2, <2>3
<1>9. /\ e["--reasoning"] \in {None, "on", "off"}
      /\ m.reasoning = IF e["--reasoning"] = None THEN "auto" ELSE e["--reasoning"]
    BY <1>3, <1>4, <1>6, FlagsAre DEF Reasons
<1>10. \A f \in DOMAIN FieldOf : e[f] # None => m[FieldOf[f]] = e[f]
    <2>1. e["--draft-max"] # None => m.draftMax = e["--draft-max"] BY <1>8
    <2>. QED BY <1>7, <2>1, FlagsAre, FieldsAre
<1>11. CASE e["--models-dir"] = None
    <2>1. m.mode = "single" BY <1>7, <1>11
    <2>2. m.reasoning \in {"auto", "on", "off"} BY <1>9
    <2>3. /\ a["--model"] = m.model /\ a["--temp"] = m.temp
          /\ a["--reasoning"] = IF m.reasoning = "auto" THEN None ELSE m.reasoning
          /\ a["--spec-type"] = m.spec /\ a["--model-draft"] = m.draftModel
          /\ a["--draft-max"] = IF Drafts(m) THEN m.draftMax ELSE None
          /\ a["-dev"] = m.devices
          /\ a["--cont-batching"] = IF m.contBatching THEN "on" ELSE "off"
          /\ a["--jinja"] = IF m.jinja THEN "on" ELSE None
          /\ a["--metrics"] = IF m.metrics THEN "on" ELSE None
          /\ a["--verbose"] = IF m.extra = <<>> THEN None ELSE "on"
          /\ a["--models-dir"] = None
          /\ a["--rpc"] = Endpoints(m)
        BY <1>4, <1>7, <2>1, <2>2, FieldsAreSaid
    <2>4. a["--reasoning"] = e["--reasoning"] BY <1>9, <2>3, FlagsAre
    <2>5. a["--model"] = e["--model"] /\ a["--model-draft"] = e["--model-draft"] /\ a["-dev"] = e["-dev"]
        BY <1>7, <2>3
    <2>6. a["--draft-max"] = e["--draft-max"] BY <1>8, <2>3
    <2>7. a["--cont-batching"] = e["--cont-batching"] BY <1>7, <2>3
    <2>8. a["--jinja"] = e["--jinja"] BY <1>7, <2>3
    <2>9. a["--metrics"] = e["--metrics"] BY <1>7, <2>3
    <2>10. a["--verbose"] = e["--verbose"] BY <1>7, <2>3
    <2>11. a["--models-dir"] = e["--models-dir"] BY <1>11, <2>3
    <2>12. e["--temp"] # None => a["--temp"] = e["--temp"] BY <1>7, <2>3
    <2>13. e["--spec-type"] # None => a["--spec-type"] = e["--spec-type"] BY <1>7, <2>3
    <2>14. \A f \in Named \ Invented : a[f] = e[f]
        BY <2>4, <2>5, <2>6, <2>7, <2>8, <2>9, <2>10, <2>11, FlagsAre DEF Invented
    <2>15. \A f \in Invented : e[f] # None => a[f] = e[f] BY <2>12, <2>13 DEF Invented
    <2>. QED BY <1>7, <1>10, <2>3, <2>14, <2>15
<1>12. CASE e["--models-dir"] # None
    <2>1. m.mode = "router" BY <1>7, <1>12
    <2>2. \A f \in Named \ {"--models-dir", "--metrics", "--verbose"} : e[f] = NothingSaid[f]
        BY <1>12 DEF Accepted
    <2>3. /\ a["--models-dir"] = m.modelsDir
          /\ a["--metrics"] = IF m.metrics THEN "on" ELSE None
          /\ a["--verbose"] = IF m.extra = <<>> THEN None ELSE "on"
          /\ \A f \in Flags \ {"--models-dir", "--metrics", "--verbose"} : a[f] = NothingSaid[f]
        BY <1>4, <1>7, <2>1, DirectoryIsSaid
    <2>4. \A f \in Named \ {"--models-dir", "--metrics", "--verbose"} : a[f] = e[f]
        BY <2>2, <2>3 DEF Flags
    <2>5. a["--models-dir"] = e["--models-dir"] BY <1>7, <2>3
    <2>6. a["--metrics"] = e["--metrics"] BY <1>7, <2>3
    <2>7. a["--verbose"] = e["--verbose"] BY <1>7, <2>3
    <2>8. \A f \in Named : a[f] = e[f] BY <2>4, <2>5, <2>6, <2>7
    <2>9. a["--rpc"] = Endpoints(m)
        <3>1. NothingSaid["--rpc"] = None BY NothingSaidIs, FlagsAre
        <3>. QED BY <2>1, <2>3, <3>1, FlagsAre DEF Endpoints
    <2>. QED BY <1>7, <1>10, <2>8, <2>9
<1>. QED BY <1>11, <1>12

-----------------------------------------------------------------------------
(* The editor                                                                *)

CommandInv ==
    /\ typed \in Seq(LineTokens)
    /\ \/ /\ applied = "nothing" /\ preset \in Fields /\ preset.override = <<>>
       \/ /\ applied = "fields" /\ preset = Merged(typed)
       \/ /\ applied = "override" /\ typed # <<>>
          /\ preset = [Merged(typed) EXCEPT !.override = typed]

LEMMA CommandInitSound == CommandInit => CommandInv
BY CommandAssumption DEF CommandInit, CommandInv

LEMMA CommandStep == CommandInv /\ [CommandNext]_commandVars => CommandInv'
<1>. SUFFICES ASSUME CommandInv, [CommandNext]_commandVars PROVE CommandInv' OBVIOUS
<1>1. typed \in Seq(LineTokens) BY DEF CommandInv
<1>2. PICK m : m = Merged(typed) OBVIOUS
<1>3. m \in Fields /\ m.override = <<>> BY <1>1, <1>2, MergedIs
<1>4. CASE CommandApplied BY <1>1, <1>4 DEF CommandApplied, CommandInv
<1>5. CASE OverrideSaved BY <1>1, <1>5 DEF OverrideSaved, CommandInv
<1>6. CASE OverrideDropped
    <2>1. preset = [m EXCEPT !.override = typed]
        <3>1. CASE applied = "fields" BY <1>2, <1>3, <1>6, <3>1 DEF CommandInv, OverrideDropped
        <3>2. CASE applied = "nothing" BY <1>6, <3>2 DEF CommandInv, OverrideDropped
        <3>3. CASE applied = "override" BY <1>2, <3>3 DEF CommandInv
        <3>. QED BY <3>1, <3>2, <3>3 DEF CommandInv
    <2>2. preset' = [preset EXCEPT !.override = <<>>] BY <1>6 DEF OverrideDropped
    <2>3. preset' = m BY <1>3, <2>1, <2>2 DEF Fields
    <2>. QED BY <1>1, <1>2, <1>6, <2>3 DEF OverrideDropped, CommandInv
<1>7. CASE UNCHANGED commandVars BY <1>7 DEF commandVars, CommandInv
<1>. QED BY <1>4, <1>5, <1>6, <1>7 DEF CommandNext

LEMMA PresetIsFields == CommandInv => preset \in Fields
<1>. SUFFICES ASSUME CommandInv PROVE preset \in Fields OBVIOUS
<1>1. typed \in Seq(LineTokens) BY DEF CommandInv
<1>2. PICK m : m = Merged(typed) OBVIOUS
<1>3. m \in Fields BY <1>1, <1>2, MergedIs
<1>4. [m EXCEPT !.override = typed] \in Fields BY <1>1, <1>3 DEF Fields
<1>. QED BY <1>2, <1>3, <1>4 DEF CommandInv

LEMMA PresetsSurvive == CommandInv => RoundTrip
<1>. SUFFICES ASSUME CommandInv PROVE RoundTrip OBVIOUS
<1>1. PICK argv : argv = ToArgv(preset) OBVIOUS
<1>2. argv \in Seq(LineTokens) BY <1>1, PresetIsFields, ArgvIsWords
<1>3. PICK runs : runs = Effect(argv) OBVIOUS
<1>4. PICK again : again = Effect(ToArgv(Merged(argv))) OBVIOUS
<1>5. ASSUME Accepted(argv), NEW f \in Named
      PROVE  again[f] = runs[f] \/ (f \in Invented /\ runs[f] = None)
    <2>1. /\ runs[f] # None => again[f] = runs[f]
          /\ f \notin Invented => again[f] = runs[f]
        BY <1>2, <1>3, <1>4, <1>5, CommandRewritten
    <2>. QED BY <2>1
<1>. QED BY <1>1, <1>3, <1>4, <1>5 DEF RoundTrip

LEMMA CommandCounts == CommandInv => CommandIsRead
<1>. SUFFICES ASSUME CommandInv, applied # "nothing", Accepted(typed)
              PROVE  /\ \A f \in DOMAIN FieldOf : Effect(typed)[f] # None => preset[FieldOf[f]] = Effect(typed)[f]
                     /\ preset.jinja = (Effect(typed)["--jinja"] = "on")
                     /\ preset.metrics = (Effect(typed)["--metrics"] = "on")
                     /\ \A f \in Named :
                           Effect(typed)[f] # None => Effect(ToArgv(preset))[f] = Effect(typed)[f]
                     /\ Effect(ToArgv(preset))["--rpc"] =
                           IF applied = "override" THEN Effect(typed)["--rpc"] ELSE Endpoints(preset)
    BY DEF CommandIsRead
<1>1. typed \in Seq(LineTokens) BY DEF CommandInv
<1>2. PICK m : m = Merged(typed) OBVIOUS
<1>3. m \in Fields /\ m.override = <<>> BY <1>1, <1>2, MergedIs
<1>4. PICK e : e = Effect(typed) OBVIOUS
<1>5. PICK a : a = Effect(ToArgv(m)) OBVIOUS
<1>6. /\ \A f \in DOMAIN FieldOf : e[f] # None => m[FieldOf[f]] = e[f]
      /\ e["--jinja"] = IF m.jinja THEN "on" ELSE None
      /\ e["--metrics"] = IF m.metrics THEN "on" ELSE None
      /\ (\A f \in Named : e[f] # None => a[f] = e[f]) /\ a["--rpc"] = Endpoints(m)
    BY <1>1, <1>2, <1>4, <1>5, CommandRewritten
<1>7. m.jinja \in BOOLEAN /\ m.metrics \in BOOLEAN BY <1>3 DEF Fields
<1>8. m.jinja = (e["--jinja"] = "on") /\ m.metrics = (e["--metrics"] = "on") BY <1>6, <1>7, FlagsAre
<1>9. CASE applied = "fields" /\ preset = m BY <1>4, <1>5, <1>6, <1>8, <1>9
<1>10. CASE applied = "override" /\ typed # <<>> /\ preset = [m EXCEPT !.override = typed]
    <2>1. /\ preset.override = typed /\ preset.jinja = m.jinja /\ preset.metrics = m.metrics
          /\ \A f \in DOMAIN FieldOf : preset[FieldOf[f]] = m[FieldOf[f]]
        BY <1>3, <1>10, FlagsAre, FieldsAre DEF Fields
    <2>2. ToArgv(preset) = typed BY <1>10, <2>1 DEF ToArgv
    <2>. QED BY <1>4, <1>6, <1>8, <1>10, <2>1, <2>2
<1>. QED BY <1>2, <1>9, <1>10 DEF CommandInv

\* Whichever way a preset was saved, its fields, the command that is started from
\* them and the command that the user typed say the same to llama-server, for all
\* command lines that it accepts: to_argv(), from_argv() and merge_command().
THEOREM PresetIsItsCommand == CommandSpec => [](CommandTypeOK /\ RoundTrip /\ CommandIsRead)
<1>1. CommandInv => RoundTrip /\ CommandIsRead BY PresetsSurvive, CommandCounts
<1>2. CommandInv => CommandTypeOK
    <2>1. Defaults \in Fields
        <3>1. <<>> \in Seq(LineTokens) OBVIOUS
        <3>. QED BY <3>1, TokensAre DEF Defaults, Fields
    <2>2. \A c, d \in Fields : DOMAIN c = DOMAIN d BY DEF Fields
    <2>3. CommandInv => DOMAIN preset = DOMAIN Defaults BY <2>1, <2>2, PresetIsFields
    <2>4. CommandInv => applied \in {"nothing", "fields", "override"} BY DEF CommandInv
    <2>. QED BY <2>3, <2>4 DEF CommandTypeOK
<1>. QED BY <1>1, <1>2, CommandInitSound, CommandStep, PTL DEF CommandSpec

\* Neither of the two things that the backend keeps in two forms ever parts: the
\* router's file and its presets, a preset's fields and its command.
THEOREM StoresStayOne == RouterSpec /\ CommandSpec => []StoresAgree
<1>1. PresetsAreServed /\ RoundTrip /\ CommandIsRead => StoresAgree BY DEF StoresAgree
<1>. QED BY <1>1, EveryPresetIsServed, PresetIsItsCommand, PTL

-----------------------------------------------------------------------------
(* The table of models: the inductive invariant *)

\* A rescan that nothing overtook has seen what it has passed as it still is.
WalkSound(s) ==
    rescan[s].fresh =>
        /\ rescan[s].at = "walk"
        /\ \A f \in Files \ rescan[s].left : rescan[s].seen[f] = There(f)

\* A row has a projector if it says so; one that was marked is of a file that
\* is there.
ModelRowSound(f) ==
    /\ table[f].has <=> table[f].projector # NoProjector
    /\ f \in marked => mounted /\ disk[f] # Absent /\ table[f].used /\ table[f] # NoRow

RegistryInv ==
    /\ RegistryTypeOK
    /\ \A s \in Rescans : WalkSound(s)
    /\ \A f \in Files : ModelRowSound(f)
    /\ RegistryIsTrue

-----------------------------------------------------------------------------
(* Rows, files and rescans *)

\* A file that is not there is no entry, and a row that is not there no row.
LEMMA NothingThere ==
    /\ Absent \notin Entry /\ NoRow \notin Row
    /\ ~NoRow.has /\ NoRow.projector = NoProjector /\ ~NoRow.used
    /\ Absent.projector = NoProjector
BY DEF Absent, Entry, NoRow, Row

\* The row of a new file is what was seen of it.
LEMMA InsertedIsSeen ==
    ASSUME NEW e \in Entry
    PROVE  /\ Inserted(e) \in Row
           /\ Inserted(e).version = e.version
           /\ Inserted(e).has <=> e.projector # NoProjector
           /\ Inserted(e).projector = e.projector
           /\ ~Inserted(e).used
BY DEF Entry, Inserted, Row

\* The row of a file that was there before is what was seen of it, but for the
\* name of a projector that took the place of another, and remembers its use.
LEMMA UpdatedIsSeen ==
    ASSUME NEW row \in Row, NEW e \in Entry, row.has <=> row.projector # NoProjector
    PROVE  /\ Updated(row, e) \in Row
           /\ Updated(row, e).version = e.version
           /\ Updated(row, e).has <=> e.projector # NoProjector
           /\ Updated(row, e).has <=> Updated(row, e).projector # NoProjector
           /\ Updated(row, e).used <=> row.used
<1>. DEFINE new == [Inserted(e) EXCEPT !.used = row.used]
<1>1. /\ Inserted(e) \in Row /\ Inserted(e).version = e.version
      /\ Inserted(e).has <=> e.projector # NoProjector
      /\ Inserted(e).projector = e.projector
    BY InsertedIsSeen
<1>. DEFINE ins == Inserted(e)
<1>2. /\ new \in Row /\ new.version = ins.version /\ (new.has <=> ins.has)
      /\ new.projector = ins.projector /\ (new.used <=> row.used)
    <2>1. ins \in Row BY <1>1
    <2>. HIDE DEF ins
    <2>2. row.used \in BOOLEAN BY DEF Row
    <2>. DEFINE u == row.used
    <2>3. u \in BOOLEAN BY <2>2
    <2>. HIDE DEF u
    <2>4. /\ [ins EXCEPT !.used = u] \in Row /\ [ins EXCEPT !.used = u].version = ins.version
          /\ [ins EXCEPT !.used = u].has = ins.has
          /\ [ins EXCEPT !.used = u].projector = ins.projector /\ [ins EXCEPT !.used = u].used = u
        BY <2>1, <2>3 DEF Row
    <2>. QED BY <2>4 DEF u, ins
<1>. HIDE DEF new, ins
<1>3. CASE row.version # e.version \/ row.has # (e.projector # NoProjector)
    <2>1. Updated(row, e) = new BY <1>3 DEF Updated, new
    <2>. QED BY <2>1, <1>1, <1>2 DEF ins
<1>4. CASE ~(row.version # e.version \/ row.has # (e.projector # NoProjector))
    <2>1. Updated(row, e) = row BY <1>4 DEF Updated
    <2>2. row.version = e.version /\ (row.has <=> e.projector # NoProjector) BY <1>4
    <2>. QED BY <2>1, <2>2
<1>. QED BY <1>3, <1>4

\* What overtakes a rescan changes nothing of it but that.
LEMMA OutdatedIsAWalk ==
    ASSUME NEW w \in [Rescans -> Walk]
    PROVE  /\ Outdated(w) \in [Rescans -> Walk]
           /\ \A s \in Rescans : ~Outdated(w)[s].fresh
<1>1. ASSUME NEW s \in Rescans
      PROVE  [w[s] EXCEPT !.fresh = FALSE] \in Walk /\ ~[w[s] EXCEPT !.fresh = FALSE].fresh
    BY DEF Walk
<1>. QED BY <1>1 DEF Outdated

\* A rescan that is idle has seen nothing.
LEMMA IdleIsAWalk == IdleRescan \in Walk /\ ~IdleRescan.fresh
BY DEF IdleRescan, Walk

-----------------------------------------------------------------------------
(* The disk *)

\* A disk that changes overtakes every rescan, the last one included.
LEMMA DiskChangedSound ==
    ASSUME RegistryInv, DiskChanged, disk' \in [Files -> Entry \union {Absent}], mounted' \in BOOLEAN,
           marked' \subseteq marked, \A f \in marked' : mounted' /\ disk'[f] # Absent
    PROVE  RegistryInv'
<1>1. RegistryTypeOK BY DEF RegistryInv
<1>2. rescan' \in [Rescans -> Walk] /\ \A s \in Rescans : ~rescan'[s].fresh
    BY <1>1, OutdatedIsAWalk DEF RegistryTypeOK, DiskChanged
<1>3. changes' \in 0..DiskChanges BY <1>1, RegistryAssumption DEF RegistryTypeOK, DiskChanged
<1>4. RegistryTypeOK' BY <1>1, <1>2, <1>3 DEF RegistryTypeOK, DiskChanged
<1>5. \A s \in Rescans : WalkSound(s)' BY <1>2 DEF WalkSound
<1>6. \A f \in Files : ModelRowSound(f)' BY DEF RegistryInv, ModelRowSound, DiskChanged
<1>7. RegistryIsTrue' BY DEF DiskChanged, RegistryIsTrue
<1>. QED BY <1>4, <1>5, <1>6, <1>7 DEF RegistryInv

LEMMA FileChangesSound == ASSUME RegistryInv, FileChanges PROVE RegistryInv'
<1>1. PICK f \in Files, to \in Entry \union {Absent} :
          /\ mounted /\ to # disk[f]
          /\ disk' = [disk EXCEPT ![f] = to]
          /\ marked' = IF to = Absent THEN marked \ {f} ELSE marked
          /\ DiskChanged /\ UNCHANGED mounted
    BY DEF FileChanges
<1>2. RegistryTypeOK BY DEF RegistryInv
<1>3. disk' \in [Files -> Entry \union {Absent}] /\ mounted' \in BOOLEAN /\ marked' \subseteq marked
    BY <1>1, <1>2 DEF RegistryTypeOK
<1>4. ASSUME NEW g \in marked' PROVE mounted' /\ disk'[g] # Absent
    <2>1. g \in Files /\ ModelRowSound(g) /\ g \in marked BY <1>2, <1>3 DEF RegistryInv, RegistryTypeOK
    <2>2. disk'[g] = IF g = f THEN to ELSE disk[g] BY <1>1, <1>2, <2>1 DEF RegistryTypeOK
    <2>. QED BY <1>1, <2>1, <2>2 DEF ModelRowSound
<1>5. DiskChanged BY <1>1
<1>. QED BY <1>3, <1>4, <1>5, DiskChangedSound

LEMMA RootChangesSound == ASSUME RegistryInv, RootChanges PROVE RegistryInv'
<1>1. RegistryTypeOK BY DEF RegistryInv
<1>2. /\ disk' \in [Files -> Entry \union {Absent}] /\ mounted' \in BOOLEAN
      /\ marked' \subseteq marked /\ marked' = {} /\ DiskChanged
    BY <1>1 DEF RegistryTypeOK, RootChanges
<1>. QED BY <1>2, DiskChangedSound

-----------------------------------------------------------------------------
(* The rescans *)

LEMMA RescanBeginsSound == ASSUME RegistryInv, RescanBegins PROVE RegistryInv'
<1>1. PICK s \in Rescans :
          rescan' = [rescan EXCEPT ![s] = [at |-> "walk", left |-> IF mounted THEN Files ELSE {},
                                           seen |-> IdleRescan.seen, fresh |-> TRUE]]
    BY DEF RescanBegins
<1>. DEFINE w == [at |-> "walk", left |-> IF mounted THEN Files ELSE {}, seen |-> IdleRescan.seen, fresh |-> TRUE]
<1>2. RegistryTypeOK BY DEF RegistryInv
<1>3. /\ w \in Walk /\ w.at = "walk" /\ (mounted => w.left = Files)
      /\ \A f \in Files : w.seen[f] = Absent
    BY <1>2 DEF IdleRescan, Walk, RegistryTypeOK
<1>4. rescan' = [rescan EXCEPT ![s] = w] BY <1>1
<1>. HIDE DEF w
<1>5. RegistryTypeOK' BY <1>2, <1>3, <1>4 DEF RegistryTypeOK, RescanBegins
<1>6. ASSUME NEW t \in Rescans PROVE WalkSound(t)'
    <2>1. WalkSound(t) BY DEF RegistryInv
    <2>2. rescan'[t] = IF t = s THEN w ELSE rescan[t] BY <1>2, <1>4 DEF RegistryTypeOK
    <2>3. \A f \in Files : There(f)' = There(f) BY DEF There, RescanBegins
    <2>4. CASE t = s
        <3>1. \A f \in Files \ w.left : w.seen[f] = There(f)' BY <1>3, <2>3 DEF There
        <3>. QED BY <1>3, <2>2, <2>4, <3>1 DEF WalkSound
    <2>5. CASE t # s BY <2>1, <2>2, <2>3, <2>5 DEF WalkSound
    <2>. QED BY <2>4, <2>5
<1>7. \A f \in Files : ModelRowSound(f)' BY DEF RegistryInv, ModelRowSound, RescanBegins
<1>8. RegistryIsTrue' BY DEF RegistryInv, RegistryIsTrue, There, RescanBegins
<1>. QED BY <1>5, <1>6, <1>7, <1>8 DEF RegistryInv

LEMMA RescanSeesSound == ASSUME RegistryInv, RescanSees PROVE RegistryInv'
<1>0. PICK s \in Rescans : \E f \in rescan[s].left :
          rescan' = [rescan EXCEPT ![s].left = @ \ {f}, ![s].seen[f] = There(f)]
    BY DEF RescanSees
<1>1. PICK f \in rescan[s].left :
          rescan' = [rescan EXCEPT ![s].left = @ \ {f}, ![s].seen[f] = There(f)]
    BY <1>0
<1>2. RegistryTypeOK BY DEF RegistryInv
<1>. DEFINE w == [[rescan[s] EXCEPT !.left = rescan[s].left \ {f}] EXCEPT !.seen = [rescan[s].seen EXCEPT ![f] = There(f)]]
<1>3. f \in Files /\ There(f) \in Entry \union {Absent} /\ rescan[s] \in Walk
    BY <1>1, <1>2 DEF RegistryTypeOK, Walk, There
<1>4. /\ w \in Walk /\ w.at = rescan[s].at /\ (w.fresh <=> rescan[s].fresh)
      /\ w.left = rescan[s].left \ {f} /\ w.seen = [rescan[s].seen EXCEPT ![f] = There(f)]
      /\ rescan' = [rescan EXCEPT ![s] = w]
    <2>. DEFINE fr == rescan[s].fresh
    <2>1. rescan[s].left \ {f} \in SUBSET Files /\ [rescan[s].seen EXCEPT ![f] = There(f)] \in [Files -> Entry \union {Absent}]
        BY <1>3 DEF Walk
    <2>2. fr \in BOOLEAN BY <1>3 DEF Walk
    <2>. DEFINE le == rescan[s].left \ {f}
                se == [rescan[s].seen EXCEPT ![f] = There(f)]
    <2>3. w = [[rescan[s] EXCEPT !.left = le] EXCEPT !.seen = se] OBVIOUS
    <2>. HIDE DEF le, se, w
    <2>4. w \in Walk /\ w.at = rescan[s].at /\ (w.fresh <=> rescan[s].fresh) /\ w.left = le /\ w.seen = se
        BY <1>3, <2>1, <2>3 DEF Walk, le, se
    <2>5. rescan' = [rescan EXCEPT ![s] = w] BY <1>1, <1>2, <1>3 DEF RegistryTypeOK, Walk, w, le, se
    <2>. QED BY <2>4, <2>5 DEF le, se
<1>. HIDE DEF w
<1>5. RegistryTypeOK' BY <1>2, <1>4 DEF RegistryTypeOK, RescanSees
<1>6. ASSUME NEW t \in Rescans PROVE WalkSound(t)'
    <2>1. WalkSound(t) /\ WalkSound(s) BY DEF RegistryInv
    <2>2. rescan'[t] = IF t = s THEN w ELSE rescan[t] BY <1>2, <1>4 DEF RegistryTypeOK
    <2>3. \A g \in Files : There(g)' = There(g) BY DEF There, RescanSees
    <2>4. CASE t = s
        <3>1. ASSUME rescan[s].fresh, NEW g \in Files \ w.left PROVE w.seen[g] = There(g)
            <4>1. w.seen[g] = IF g = f THEN There(f) ELSE rescan[s].seen[g] BY <1>3, <1>4 DEF Walk
            <4>. QED BY <1>4, <2>1, <3>1, <4>1 DEF WalkSound
        <3>2. rescan'[t] = w BY <2>2, <2>4
        <3>3. w.fresh <=> rescan[s].fresh BY <1>4
        <3>4. w.fresh => w.at = "walk" BY <1>4, <2>1 DEF WalkSound
        <3>5. w.fresh => \A g \in Files \ w.left : w.seen[g] = There(g)' BY <2>3, <3>1, <3>3
        <3>. QED BY <3>2, <3>4, <3>5 DEF WalkSound
    <2>5. CASE t # s BY <2>1, <2>2, <2>3, <2>5 DEF WalkSound
    <2>. QED BY <2>4, <2>5
<1>7. \A g \in Files : ModelRowSound(g)' BY DEF RegistryInv, ModelRowSound, RescanSees
<1>8. RegistryIsTrue' BY DEF RegistryInv, RegistryIsTrue, There, RescanSees
<1>. QED BY <1>5, <1>6, <1>7, <1>8 DEF RegistryInv

\* What persist() makes of a row and of what was seen of its file.
LEMMA PersistedIsSeen ==
    ASSUME RegistryTypeOK, NEW seen \in [Files -> Entry \union {Absent}], NEW f \in Files, ModelRowSound(f)
    PROVE  /\ Persisted(seen)[f] \in Row \union {NoRow}
           /\ Persisted(seen)[f] = NoRow <=> seen[f] = Absent
           /\ Persisted(seen)[f].has <=> Persisted(seen)[f].projector # NoProjector
           /\ seen[f] # Absent => /\ Persisted(seen)[f].version = seen[f].version
                                  /\ Persisted(seen)[f].has <=> seen[f].projector # NoProjector
           /\ seen[f] # Absent /\ table[f] # NoRow => (Persisted(seen)[f].used <=> table[f].used)
<1>1. table[f] \in Row \union {NoRow} BY DEF RegistryTypeOK
<1>2. Persisted(seen)[f] = IF seen[f] = Absent THEN NoRow
                           ELSE IF table[f] = NoRow THEN Inserted(seen[f]) ELSE Updated(table[f], seen[f])
    BY DEF Persisted
<1>3. CASE seen[f] = Absent BY <1>2, <1>3, NothingThere
<1>4. CASE seen[f] # Absent /\ table[f] = NoRow
    <2>1. seen[f] \in Entry /\ Persisted(seen)[f] = Inserted(seen[f]) BY <1>2, <1>4
    <2>. QED BY <1>4, <2>1, InsertedIsSeen, NothingThere
<1>5. CASE seen[f] # Absent /\ table[f] # NoRow
    <2>1. seen[f] \in Entry /\ table[f] \in Row /\ Persisted(seen)[f] = Updated(table[f], seen[f])
        BY <1>1, <1>2, <1>5
    <2>2. table[f].has <=> table[f].projector # NoProjector BY DEF ModelRowSound
    <2>. QED BY <1>5, <2>1, <2>2, UpdatedIsSeen, NothingThere
<1>. QED BY <1>3, <1>4, <1>5

LEMMA RescanPersistsSound == ASSUME RegistryInv, RescanPersists PROVE RegistryInv'
<1>1. PICK s \in Rescans :
          /\ rescan[s].at = "walk" /\ rescan[s].left = {}
          /\ table' = Persisted(rescan[s].seen)
          /\ current' = rescan[s].fresh
          /\ marked' = IF rescan[s].fresh THEN marked ELSE {f \in marked : rescan[s].seen[f] # Absent}
          /\ rescan' = [Outdated(rescan) EXCEPT ![s] = IdleRescan]
          /\ UNCHANGED <<disk, mounted, changes>>
    BY DEF RescanPersists
<1>. DEFINE seen == rescan[s].seen
<1>2. RegistryTypeOK /\ WalkSound(s) BY DEF RegistryInv
<1>3. rescan[s] \in Walk /\ rescan[s].fresh \in BOOLEAN /\ seen \in [Files -> Entry \union {Absent}]
    BY <1>2 DEF RegistryTypeOK, Walk
<1>4. table' = Persisted(seen) BY <1>1
<1>5. rescan[s].fresh => \A f \in Files : seen[f] = There(f) BY <1>1, <1>2 DEF WalkSound
<1>6. rescan' \in [Rescans -> Walk] /\ \A t \in Rescans : ~rescan'[t].fresh
    <2>. DEFINE o == Outdated(rescan)
    <2>1. o \in [Rescans -> Walk] /\ \A t \in Rescans : ~o[t].fresh BY <1>2, OutdatedIsAWalk DEF RegistryTypeOK
    <2>2. rescan' = [o EXCEPT ![s] = IdleRescan] BY <1>1
    <2>. HIDE DEF o
    <2>. QED BY <2>1, <2>2, IdleIsAWalk
<1>. HIDE DEF seen
<1>7. ASSUME NEW f \in Files
      PROVE  /\ table'[f] \in Row \union {NoRow}
             /\ table'[f] = NoRow <=> seen[f] = Absent
             /\ table'[f].has <=> table'[f].projector # NoProjector
             /\ seen[f] # Absent => /\ table'[f].version = seen[f].version
                                    /\ table'[f].has <=> seen[f].projector # NoProjector
             /\ seen[f] # Absent /\ table[f] # NoRow => (table'[f].used <=> table[f].used)
    <2>1. ModelRowSound(f) BY DEF RegistryInv
    <2>. QED BY <1>2, <1>3, <1>4, <2>1, PersistedIsSeen
<1>8. table' \in [Files -> Row \union {NoRow}] BY <1>4, <1>7 DEF Persisted
<1>9. marked' \subseteq marked /\ current' \in BOOLEAN BY <1>1, <1>3
<1>10. RegistryTypeOK' BY <1>1, <1>2, <1>6, <1>8, <1>9 DEF RegistryTypeOK
<1>11. \A t \in Rescans : WalkSound(t)' BY <1>6 DEF WalkSound
<1>12. ASSUME NEW f \in Files PROVE ModelRowSound(f)'
    <2>1. ModelRowSound(f) BY DEF RegistryInv
    <2>2. f \in marked' => f \in marked /\ seen[f] # Absent BY <1>1, <1>5, <2>1 DEF ModelRowSound, There, seen
    <2>. QED BY <1>1, <1>7, <2>1, <2>2 DEF ModelRowSound
<1>13. ASSUME current', NEW f \in Files
       PROVE  /\ table'[f] = NoRow <=> There(f)' = Absent
              /\ There(f)' # Absent =>
                    /\ table'[f].version = There(f)'.version
                    /\ table'[f].has <=> There(f)'.projector # NoProjector
                    /\ table'[f].projector = NoProjector <=> There(f)'.projector = NoProjector
    <2>1. There(f)' = There(f) BY <1>1 DEF There
    <2>2. seen[f] = There(f) BY <1>1, <1>5, <1>13
    <2>. QED BY <1>7, <2>1, <2>2
<1>14. RegistryIsTrue' BY <1>13 DEF RegistryIsTrue
<1>. QED BY <1>10, <1>11, <1>12, <1>14 DEF RegistryInv

LEMMA MarkUsedSound == ASSUME RegistryInv, MarkUsed PROVE RegistryInv'
<1>1. PICK f \in Files :
          /\ mounted /\ disk[f] # Absent /\ table[f] # NoRow
          /\ table' = [table EXCEPT ![f].used = TRUE]
          /\ marked' = marked \union {f}
          /\ UNCHANGED <<disk, mounted, rescan, changes, current>>
    BY DEF MarkUsed
<1>2. RegistryTypeOK BY DEF RegistryInv
<1>. DEFINE row == [table[f] EXCEPT !.used = TRUE]
<1>3. /\ row \in Row /\ row.version = table[f].version /\ (row.has <=> table[f].has)
      /\ row.projector = table[f].projector /\ row.used
    <2>1. table[f] \in Row BY <1>1, <1>2 DEF RegistryTypeOK
    <2>. QED BY <2>1 DEF Row
<1>4. table' = [table EXCEPT ![f] = row] BY <1>1
<1>. HIDE DEF row
<1>5. RegistryTypeOK' BY <1>1, <1>2, <1>3, <1>4 DEF RegistryTypeOK
<1>6. \A s \in Rescans : WalkSound(s)' BY <1>1 DEF RegistryInv, WalkSound, There
<1>7. ASSUME NEW g \in Files
      PROVE  /\ table'[g].version = table[g].version /\ (table'[g].has <=> table[g].has)
             /\ table'[g].projector = table[g].projector
             /\ table'[g] = NoRow <=> table[g] = NoRow
             /\ g \in marked' => table'[g].used \/ g \in marked
             /\ table[g].used => table'[g].used
    <2>1. table'[g] = IF g = f THEN row ELSE table[g] BY <1>2, <1>4 DEF RegistryTypeOK
    <2>. QED BY <1>1, <1>3, <2>1, NothingThere
<1>8. ASSUME NEW g \in Files PROVE ModelRowSound(g)'
    <2>1. ModelRowSound(g) BY DEF RegistryInv
    <2>. QED BY <1>1, <1>7, <2>1 DEF ModelRowSound
<1>9. RegistryIsTrue' BY <1>1, <1>7 DEF RegistryInv, RegistryIsTrue, There
<1>. QED BY <1>5, <1>6, <1>8, <1>9 DEF RegistryInv

-----------------------------------------------------------------------------
(* Every step, and the theorems *)

LEMMA RegistryInitSound == RegistryInit => RegistryInv
<1>. SUFFICES ASSUME RegistryInit PROVE RegistryInv OBVIOUS
<1>1. [version |-> 0, projector |-> NoProjector] \in Entry BY DEF Entry
<1>2. disk \in [Files -> Entry \union {Absent}] BY <1>1 DEF RegistryInit
<1>3. rescan \in [Rescans -> Walk] /\ \A s \in Rescans : ~rescan[s].fresh BY IdleIsAWalk DEF RegistryInit
<1>4. RegistryTypeOK
    <2>1. table \in [Files -> Row \union {NoRow}] BY DEF RegistryInit
    <2>2. changes \in 0..DiskChanges BY RegistryAssumption DEF RegistryInit
    <2>3. mounted \in BOOLEAN /\ current \in BOOLEAN /\ marked \subseteq Files BY DEF RegistryInit
    <2>. QED BY <1>2, <1>3, <2>1, <2>2, <2>3 DEF RegistryTypeOK
<1>5. \A s \in Rescans : WalkSound(s) BY <1>3 DEF WalkSound
<1>6. \A f \in Files : ModelRowSound(f) BY NothingThere DEF RegistryInit, ModelRowSound
<1>7. RegistryIsTrue BY DEF RegistryInit, RegistryIsTrue
<1>. QED BY <1>4, <1>5, <1>6, <1>7 DEF RegistryInv

LEMMA RegistryStep == RegistryInv /\ [RegistryNext]_registryVars => RegistryInv'
<1>. SUFFICES ASSUME RegistryInv, [RegistryNext]_registryVars PROVE RegistryInv' OBVIOUS
<1>1. CASE FileChanges BY <1>1, FileChangesSound
<1>2. CASE RootChanges BY <1>2, RootChangesSound
<1>3. CASE RescanBegins BY <1>3, RescanBeginsSound
<1>4. CASE RescanSees BY <1>4, RescanSeesSound
<1>5. CASE RescanPersists BY <1>5, RescanPersistsSound
<1>6. CASE MarkUsed BY <1>6, MarkUsedSound
<1>7. CASE UNCHANGED registryVars
    BY <1>7 DEF registryVars, RegistryInv, RegistryTypeOK, WalkSound, ModelRowSound, RegistryIsTrue, There
<1>. QED BY <1>1, <1>2, <1>3, <1>4, <1>5, <1>6, <1>7 DEF RegistryNext

\* After a rescan that nothing overtook, the table has the files that are
\* there, as they are; and when a model was last used is not forgotten while
\* its file stays: scan_roots(), persist() and mark_used() beside each other.
THEOREM RegistryStaysTrue == RegistrySpec => [](RegistryTypeOK /\ RegistryIsKept)
<1>1. RegistryInv => RegistryTypeOK /\ RegistryIsKept
    BY DEF RegistryInv, RegistryTypeOK, ModelRowSound, UseIsRemembered, RegistryIsKept
<1>. QED BY <1>1, RegistryInitSound, RegistryStep, PTL DEF RegistrySpec

-----------------------------------------------------------------------------
(* The corrections: the inductive invariant *)

\* An offset is what the card showed too much, or of an estimate that was late.
Honest(f) == \A v \in DOMAIN f : <<v, f[v]>> \in doubtful \/ f[v] = Excess[v]

\* The move goes on where the one before it stopped: rows are aside only of a
\* table that has been moved, and none are when load() or record() have theirs.
MoveSound ==
    /\ \A a, b \in aside : a = b
    /\ schema = "old" => aside = {}
    /\ ensuring.at = "rename" => schema = "old"
    /\ ensuring.at = "write" => aside = {}

\* record() writes the row of an offset that it has put into the cache.
WriteSound == ensuring.for # NoVendor => ensuring.for \in DOMAIN cache

\* What GET /vram has read is what the formulas, which stay, make of an offset.
PollSound ==
    \A r \in DOMAIN vramPoll : vramPoll[r].estimate = NotNegative(formula[r] - vramPoll[r].with)

CalibInv ==
    /\ CalibTypeOK
    /\ Honest(cache) /\ Honest(rows) /\ \A old \in aside : Honest(old)
    /\ MoveSound /\ WriteSound /\ PollSound
    /\ MeasurementsSurvive

-----------------------------------------------------------------------------
(* Offsets *)
LEMMA NoRowsEmpty == DOMAIN NoRows = {} /\ DOMAIN NoVramPoll = {}
BY DEF NoRows, NoVramPoll

LEMMA EnteredIsOffsets ==
    ASSUME NEW f, AreOffsets(f), NEW v \in Vendors, NEW n \in Int
    PROVE  /\ AreOffsets(Entered(f, v, n)) /\ DOMAIN Entered(f, v, n) = DOMAIN f \union {v}
           /\ \A x \in DOMAIN Entered(f, v, n) : Entered(f, v, n)[x] = IF x = v THEN n ELSE f[x]
BY DEF AreOffsets, Entered

\* What applies to a preset is an offset there is, or none.
LEMMA OffsetForType == ASSUME CalibTypeOK, NEW pin PROVE OffsetFor(pin) \in Int
<1>1. OffsetEntry(pin) \subseteq DOMAIN cache BY DEF OffsetEntry
<1>2. CASE OffsetEntry(pin) = {} BY <1>2 DEF OffsetFor
<1>3. CASE OffsetEntry(pin) # {}
    <2>1. (CHOOSE v \in OffsetEntry(pin) : TRUE) \in OffsetEntry(pin) BY <1>3
    <2>. QED BY <1>1, <1>3, <2>1 DEF OffsetFor, CalibTypeOK, AreOffsets
<1>. QED BY <1>2, <1>3

\* Where nothing of it changes, the invariant stays.
LEMMA CalibStutters == CalibInv /\ UNCHANGED calibVars => CalibInv'
BY DEF CalibInv, CalibTypeOK, Honest, MoveSound, WriteSound, PollSound, MeasurementsSurvive, calibVars, AreOffsets

-----------------------------------------------------------------------------
(* The table *)

\* A step of ensure_table() that leaves the offsets and the rows.
LEMMA EnsuringSound ==
    ASSUME CalibInv, UNCHANGED <<cache, rows, aside, vramPoll, formula, ever, loaded, doubtful>>,
           schema' \in {NoTable, "old", "new"},
           ensuring' \in [at : {"idle", "create", "rename", "recreate", "fold", "write"}, for : Vendors \union {NoVendor}],
           MoveSound', ensuring'.for \in {ensuring.for, NoVendor}
    PROVE  CalibInv'
<1>1. CalibTypeOK' BY DEF CalibInv, CalibTypeOK, AreOffsets
<1>2. (Honest(cache) /\ Honest(rows) /\ \A old \in aside : Honest(old))' BY DEF CalibInv, Honest
<1>3. WriteSound' /\ PollSound' /\ MeasurementsSurvive'
    BY DEF CalibInv, WriteSound, PollSound, MeasurementsSurvive
<1>. QED BY <1>1, <1>2, <1>3 DEF CalibInv

\* A step of ensure_table() leads to another one, for the same vendor.
LEMMA EnsuringGoes ==
    ASSUME CalibTypeOK, NEW at \in {"idle", "create", "rename", "recreate", "fold", "write"}
    PROVE  /\ [ensuring EXCEPT !.at = at] \in [at : {"idle", "create", "rename", "recreate", "fold", "write"}, for : Vendors \union {NoVendor}]
           /\ [ensuring EXCEPT !.at = at].at = at /\ [ensuring EXCEPT !.at = at].for = ensuring.for
BY DEF CalibTypeOK

LEMMA EnsureCreatesSound == ASSUME CalibInv, EnsureCreates PROVE CalibInv'
<1>. DEFINE at == IF schema' = "new" THEN "fold" ELSE "rename"
<1>1. CalibTypeOK /\ MoveSound BY DEF CalibInv
<1>2. schema' \in {NoTable, "old", "new"} /\ (schema' = "old" => schema = "old")
      /\ (schema' # "new" => schema' = "old")
    BY <1>1 DEF CalibTypeOK, EnsureCreates, NoTable
<1>3. at \in {"idle", "create", "rename", "recreate", "fold", "write"} OBVIOUS
<1>4. ensuring' = [ensuring EXCEPT !.at = at] BY DEF EnsureCreates, WithVendors
<1>5. at # "write" /\ (at = "rename" => schema' = "old") BY <1>2
<1>. HIDE DEF at
<1>6. /\ ensuring' \in [at : {"idle", "create", "rename", "recreate", "fold", "write"}, for : Vendors \union {NoVendor}]
      /\ ensuring'.at = at /\ ensuring'.for = ensuring.for
    BY <1>1, <1>3, <1>4, EnsuringGoes
<1>7. MoveSound' BY <1>1, <1>2, <1>5, <1>6 DEF MoveSound, EnsureCreates
<1>. QED BY <1>2, <1>6, <1>7, EnsuringSound DEF EnsureCreates

LEMMA EnsureRecreatesSound == ASSUME CalibInv, EnsureRecreates PROVE CalibInv'
<1>1. CalibTypeOK /\ MoveSound BY DEF CalibInv
<1>2. ensuring' = [ensuring EXCEPT !.at = "fold"] /\ schema' = "new" BY DEF EnsureRecreates
<1>3. /\ ensuring' \in [at : {"idle", "create", "rename", "recreate", "fold", "write"}, for : Vendors \union {NoVendor}]
      /\ ensuring'.at = "fold" /\ ensuring'.for = ensuring.for
    BY <1>1, <1>2, EnsuringGoes
<1>4. MoveSound' BY <1>1, <1>2, <1>3 DEF MoveSound, EnsureRecreates
<1>. QED BY <1>2, <1>3, <1>4, EnsuringSound DEF EnsureRecreates

LEMMA EnsureFailsSound == ASSUME CalibInv, EnsureFails PROVE CalibInv'
<1>1. CalibTypeOK /\ MoveSound BY DEF CalibInv
<1>2. /\ ensuring' \in [at : {"idle", "create", "rename", "recreate", "fold", "write"}, for : Vendors \union {NoVendor}]
      /\ ensuring'.at = "idle" /\ ensuring'.for = NoVendor
    BY DEF EnsureFails, Idle
<1>3. MoveSound' BY <1>1, <1>2 DEF MoveSound, EnsureFails
<1>4. schema' \in {NoTable, "old", "new"} BY <1>1 DEF CalibTypeOK, EnsureFails
<1>. QED BY <1>2, <1>3, <1>4, EnsuringSound DEF EnsureFails

LEMMA EnsureRenamesSound == ASSUME CalibInv, EnsureRenames PROVE CalibInv'
<1>1. CalibTypeOK /\ MoveSound /\ WriteSound /\ PollSound BY DEF CalibInv
<1>2. ensuring' = [ensuring EXCEPT !.at = "recreate"] BY DEF EnsureRenames
<1>3. /\ ensuring' \in [at : {"idle", "create", "rename", "recreate", "fold", "write"}, for : Vendors \union {NoVendor}]
      /\ ensuring'.at = "recreate" /\ ensuring'.for = ensuring.for
    BY <1>1, <1>2, EnsuringGoes
<1>4. aside = {} BY <1>1 DEF MoveSound, EnsureRenames
<1>5. aside' = {rows} /\ rows' = NoRows /\ schema' = NoTable BY DEF EnsureRenames
<1>6. CalibTypeOK' BY <1>1, <1>3, <1>5, NoRowsEmpty DEF CalibTypeOK, AreOffsets, EnsureRenames
<1>7. (Honest(cache) /\ Honest(rows) /\ \A old \in aside : Honest(old))'
    BY <1>5, NoRowsEmpty DEF CalibInv, Honest, EnsureRenames
<1>8. MoveSound' BY <1>3, <1>5 DEF MoveSound, NoTable
<1>9. WriteSound' /\ PollSound' BY <1>1, <1>3 DEF WriteSound, PollSound, EnsureRenames
<1>10. MeasurementsSurvive' BY <1>4, <1>5 DEF CalibInv, MeasurementsSurvive, EnsureRenames
<1>. QED BY <1>6, <1>7, <1>8, <1>9, <1>10 DEF CalibInv

LEMMA EnsureFoldsSound == ASSUME CalibInv, EnsureFolds PROVE CalibInv'
<1>1. CalibTypeOK /\ MoveSound /\ WriteSound /\ PollSound BY DEF CalibInv
<1>2. ensuring' = [ensuring EXCEPT !.at = "write"] BY DEF EnsureFolds
<1>3. /\ ensuring' \in [at : {"idle", "create", "rename", "recreate", "fold", "write"}, for : Vendors \union {NoVendor}]
      /\ ensuring'.at = "write" /\ ensuring'.for = ensuring.for
    BY <1>1, <1>2, EnsuringGoes
<1>4. /\ AreOffsets(rows') /\ Honest(rows)'
      /\ DOMAIN rows \subseteq DOMAIN rows' /\ \A old \in aside : DOMAIN old \subseteq DOMAIN rows'
    <2>0. AreOffsets(rows) /\ Honest(rows) BY <1>1 DEF CalibInv, CalibTypeOK
    <2>1. CASE aside = {}
        <3>1. rows' = rows /\ doubtful' = doubtful BY <2>1 DEF EnsureFolds
        <3>2. AreOffsets(rows') BY <2>0, <3>1
        <3>3. Honest(rows)' BY <2>0, <3>1 DEF Honest
        <3>. QED BY <2>1, <3>1, <3>2, <3>3
    <2>2. CASE aside # {}
        <3>. DEFINE old == CHOOSE old \in aside : TRUE
        <3>1. old \in aside /\ aside = {old} BY <1>1, <2>2 DEF MoveSound
        <3>2. AreOffsets(old) /\ Honest(old) BY <1>1, <3>1 DEF CalibInv, CalibTypeOK
        <3>3. rows' = Filled(rows, old) BY <2>2 DEF EnsureFolds
        <3>. HIDE DEF old
        <3>4. /\ AreOffsets(rows') /\ DOMAIN rows' = DOMAIN rows \union DOMAIN old
              /\ \A x \in DOMAIN rows' : rows'[x] = IF x \in DOMAIN rows THEN rows[x] ELSE old[x]
            BY <2>0, <3>2, <3>3 DEF AreOffsets, Filled
        <3>5. doubtful' = doubtful BY DEF EnsureFolds
        <3>6. Honest(rows)' BY <2>0, <3>2, <3>4, <3>5 DEF Honest
        <3>. QED BY <3>1, <3>4, <3>6
    <2>. QED BY <2>1, <2>2
<1>5. CalibTypeOK' BY <1>1, <1>3, <1>4 DEF CalibTypeOK, AreOffsets, EnsureFolds
<1>6. (Honest(cache) /\ \A old \in aside : Honest(old))' BY DEF CalibInv, Honest, EnsureFolds
<1>7. MoveSound' BY <1>3 DEF MoveSound, EnsureFolds
<1>8. WriteSound' /\ PollSound' BY <1>1, <1>3 DEF WriteSound, PollSound, EnsureFolds
<1>9. MeasurementsSurvive' BY <1>4 DEF CalibInv, MeasurementsSurvive, EnsureFolds
<1>. QED BY <1>4, <1>5, <1>6, <1>7, <1>8, <1>9 DEF CalibInv

LEMMA EnsureEndsSound == ASSUME CalibInv, EnsureEnds PROVE CalibInv'
<1>1. CalibTypeOK /\ MoveSound /\ WriteSound /\ PollSound BY DEF CalibInv
<1>2. /\ AreOffsets(cache) /\ AreOffsets(rows)
      /\ Honest(cache) /\ Honest(rows) /\ aside = {} /\ aside' = {}
    <2>1. AreOffsets(cache) /\ AreOffsets(rows) BY <1>1 DEF CalibTypeOK
    <2>2. Honest(cache) /\ Honest(rows) BY DEF CalibInv
    <2>3. aside = {} /\ aside' = {} BY <1>1 DEF MoveSound, EnsureEnds
    <2>. QED BY <2>1, <2>2, <2>3
<1>3. ensuring' \in [at : {"idle", "create", "rename", "recreate", "fold", "write"}, for : Vendors \union {NoVendor}]
      /\ ensuring'.at = "idle" /\ ensuring'.for = NoVendor
    BY DEF EnsureEnds, Idle
<1>4. MoveSound' BY <1>1, <1>3 DEF MoveSound, EnsureEnds
<1>5. PollSound' /\ WriteSound' BY <1>1, <1>3 DEF PollSound, WriteSound, EnsureEnds
<1>6. CASE ensuring.for = NoVendor
    <2>1. cache' = Filled(rows, cache) /\ loaded' = TRUE /\ UNCHANGED <<rows, ever>> BY <1>6 DEF EnsureEnds
    <2>2. /\ AreOffsets(cache') /\ DOMAIN cache' = DOMAIN rows \union DOMAIN cache
          /\ \A x \in DOMAIN cache' : cache'[x] = IF x \in DOMAIN rows THEN rows[x] ELSE cache[x]
        BY <1>2, <2>1 DEF AreOffsets, Filled
    <2>3. CalibTypeOK' BY <1>1, <1>3, <2>1, <2>2 DEF CalibTypeOK, AreOffsets, EnsureEnds
    <2>4. (Honest(cache) /\ Honest(rows) /\ \A old \in aside : Honest(old))'
        BY <1>2, <2>1, <2>2 DEF Honest, EnsureEnds
    <2>5. MeasurementsSurvive' BY <1>2, <2>1, <2>2 DEF CalibInv, MeasurementsSurvive, EnsureEnds
    <2>. QED BY <1>4, <1>5, <2>3, <2>4, <2>5 DEF CalibInv
<1>7. CASE ensuring.for # NoVendor
    <2>. DEFINE v == ensuring.for
                n == cache[v]
    <2>1. rows' = Entered(rows, v, n) /\ ever' = ever \union {v} /\ UNCHANGED <<cache, loaded>> BY <1>7 DEF EnsureEnds
    <2>2. v \in DOMAIN cache /\ v \in Vendors /\ n \in Int
        BY <1>1, <1>2, <1>7 DEF WriteSound, AreOffsets
    <2>3. <<v, n>> \in doubtful \/ n = Excess[v] BY <1>2, <2>2 DEF Honest
    <2>. HIDE DEF n, v
    <2>4. /\ AreOffsets(rows') /\ DOMAIN rows' = DOMAIN rows \union {v}
          /\ \A x \in DOMAIN rows' : rows'[x] = IF x = v THEN n ELSE rows[x]
        BY <1>2, <2>1, <2>2, EnteredIsOffsets
    <2>5. CalibTypeOK' BY <1>1, <1>3, <2>1, <2>2, <2>4 DEF CalibTypeOK, AreOffsets, EnsureEnds
    <2>6. (Honest(cache) /\ Honest(rows) /\ \A old \in aside : Honest(old))'
        BY <1>2, <2>1, <2>3, <2>4 DEF Honest, EnsureEnds
    <2>7. MeasurementsSurvive' BY <1>2, <2>1, <2>2, <2>4 DEF CalibInv, MeasurementsSurvive, EnsureEnds
    <2>. QED BY <1>4, <1>5, <2>5, <2>6, <2>7 DEF CalibInv
<1>. QED BY <1>6, <1>7

-----------------------------------------------------------------------------
(* The lookup and the recording *)

LEMMA PollReadsSound == ASSUME CalibInv, PollReads PROVE CalibInv'
<1>1. CalibTypeOK BY DEF CalibInv
<1>2. PICK settled \in SUBSET Runs :
          vramPoll' = [r \in settled |-> [estimate |-> Estimate(r), with |-> OffsetFor(r.pin)]]
    BY DEF PollReads
<1>3. ASSUME NEW r \in DOMAIN vramPoll'
      PROVE  /\ r \in Runs /\ vramPoll'[r].estimate \in Int /\ vramPoll'[r].with \in Int
             /\ vramPoll'[r].estimate = NotNegative(formula[r] - vramPoll'[r].with)
    <2>1. r \in Runs /\ vramPoll'[r].estimate = Estimate(r) /\ vramPoll'[r].with = OffsetFor(r.pin) BY <1>2
    <2>2. OffsetFor(r.pin) \in Int BY <1>1, OffsetForType
    <2>3. formula[r] \in Int BY <1>1, <2>1 DEF CalibTypeOK
    <2>4. Estimate(r) \in Int BY <2>2, <2>3 DEF Estimate, NotNegative
    <2>. QED BY <2>1, <2>2, <2>4 DEF Estimate
<1>4. CalibTypeOK' BY <1>1, <1>3 DEF CalibTypeOK, AreOffsets, PollReads
<1>5. (Honest(cache) /\ Honest(rows) /\ \A old \in aside : Honest(old))' BY DEF CalibInv, Honest, PollReads
<1>6. MoveSound' /\ WriteSound' /\ MeasurementsSurvive'
    BY DEF CalibInv, MoveSound, WriteSound, MeasurementsSurvive, PollReads
<1>7. PollSound' BY <1>3 DEF PollSound, PollReads
<1>. QED BY <1>4, <1>5, <1>6, <1>7 DEF CalibInv

\* What record() keeps of an estimate that is not late is what the card showed
\* too much.
LEMMA RecordedIsMeasured ==
    ASSUME CalibInv, NEW r \in DOMAIN vramPoll,
           vramPoll[r].estimate # 0, vramPoll[r].with = OffsetFor(r.pin)
    PROVE  Estimated(r, vramPoll[r].estimate) - Reported(r) = Excess[r.on]
<1>1. CalibTypeOK /\ PollSound BY DEF CalibInv
<1>2. r \in Runs /\ vramPoll[r].with \in Int /\ formula[r] \in Int BY <1>1 DEF CalibTypeOK
<1>3. Excess[r.on] \in Int BY <1>2, CalibAssumption
<1>4. vramPoll[r].estimate = NotNegative(formula[r] - vramPoll[r].with) BY <1>1 DEF PollSound
<1>5. vramPoll[r].estimate = formula[r] - vramPoll[r].with BY <1>2, <1>4 DEF NotNegative
<1>. QED BY <1>2, <1>3, <1>5 DEF Estimated, Reported

LEMMA PollRecordsSound == ASSUME CalibInv, PollRecords PROVE CalibInv'
<1>1. CalibTypeOK /\ MoveSound /\ WriteSound /\ PollSound BY DEF CalibInv
<1>2. PICK r \in DOMAIN vramPoll :
        LET offset == Estimated(r, vramPoll[r].estimate) - Reported(r)
            known == r.on \in DOMAIN cache /\ cache[r.on] = offset
            ignored == vramPoll[r].estimate = 0 \/ Estimated(r, vramPoll[r].estimate) <= 0 \/ Reported(r) <= 0
                       \/ offset \notin -MaxOffset..MaxOffset \/ known IN
        /\ ensuring = Idle
        /\ vramPoll' = Restrict(vramPoll, DOMAIN vramPoll \ {r})
        /\ IF ignored THEN UNCHANGED <<cache, ensuring, doubtful>>
           ELSE /\ cache' = Entered(cache, r.on, offset)
                /\ ensuring' = [at |-> "create", for |-> r.on]
                /\ doubtful' = IF vramPoll[r].with = OffsetFor(r.pin) THEN doubtful
                               ELSE doubtful \union {<<r.on, offset>>}
        /\ UNCHANGED <<schema, rows, aside, formula, ever, loaded>>
    BY DEF PollRecords
<1>. DEFINE offset == Estimated(r, vramPoll[r].estimate) - Reported(r)
            estimate == vramPoll[r].estimate
            with == vramPoll[r].with
<1>3. /\ r \in Runs /\ r.on \in Vendors /\ r.on # NoVendor /\ formula[r] \in Int
      /\ estimate \in Int /\ Excess[r.on] \in Int
    BY <1>1, CalibAssumption DEF CalibTypeOK
<1>4. OffsetFor(r.pin) \in Int BY <1>1, OffsetForType
<1>5. offset \in Int BY <1>3, <1>4 DEF Estimated, Reported
<1>6. UNCHANGED <<schema, rows, aside, formula, ever, loaded>> BY <1>2
<1>7. ASSUME NEW t \in DOMAIN vramPoll'
      PROVE  t \in DOMAIN vramPoll /\ vramPoll'[t] = vramPoll[t]
    BY <1>2 DEF Restrict
<1>8. PollSound' BY <1>1, <1>6, <1>7 DEF PollSound
<1>9. \/ UNCHANGED <<cache, ensuring, doubtful>>
      \/ /\ cache' = Entered(cache, r.on, offset)
         /\ ensuring' = [at |-> "create", for |-> r.on]
         /\ doubtful' = IF with = OffsetFor(r.pin) THEN doubtful ELSE doubtful \union {<<r.on, offset>>}
         /\ estimate # 0
    BY <1>2
<1>10. with = OffsetFor(r.pin) /\ estimate # 0 => offset = Excess[r.on] BY RecordedIsMeasured
<1>. HIDE DEF offset, with, estimate
<1>11. CASE UNCHANGED <<cache, ensuring, doubtful>>
    <2>1. CalibTypeOK' BY <1>1, <1>6, <1>7, <1>11 DEF CalibTypeOK, AreOffsets
    <2>2. (Honest(cache) /\ Honest(rows) /\ \A old \in aside : Honest(old))' BY <1>6, <1>11 DEF CalibInv, Honest
    <2>3. MoveSound' /\ WriteSound' /\ MeasurementsSurvive'
        BY <1>6, <1>11 DEF CalibInv, MoveSound, WriteSound, MeasurementsSurvive
    <2>. QED BY <1>8, <2>1, <2>2, <2>3 DEF CalibInv
<1>12. CASE /\ cache' = Entered(cache, r.on, offset)
            /\ ensuring' = [at |-> "create", for |-> r.on]
            /\ doubtful' = IF with = OffsetFor(r.pin) THEN doubtful ELSE doubtful \union {<<r.on, offset>>}
            /\ estimate # 0
    <2>1. AreOffsets(cache) /\ Honest(cache) /\ Honest(rows) BY <1>1 DEF CalibInv, CalibTypeOK
    <2>2. /\ AreOffsets(cache') /\ DOMAIN cache' = DOMAIN cache \union {r.on}
          /\ \A x \in DOMAIN cache' : cache'[x] = IF x = r.on THEN offset ELSE cache[x]
        <3>1. cache' = Entered(cache, r.on, offset) BY <1>12
        <3>. QED BY <1>3, <1>5, <2>1, <3>1 DEF AreOffsets, Entered
    <2>3. doubtful \subseteq doubtful' /\ (<<r.on, offset>> \in doubtful' \/ offset = Excess[r.on])
        BY <1>10, <1>12
    <2>4. doubtful' \subseteq Vendors \X Int BY <1>1, <1>3, <1>5, <1>12 DEF CalibTypeOK
    <2>5. ensuring' \in [at : {"idle", "create", "rename", "recreate", "fold", "write"}, for : Vendors \union {NoVendor}]
        BY <1>3, <1>12
    <2>6. CalibTypeOK' BY <1>1, <1>6, <1>7, <2>2, <2>4, <2>5 DEF CalibTypeOK, AreOffsets
    <2>7. Honest(cache)' BY <2>1, <2>2, <2>3 DEF Honest
    <2>8. Honest(rows)' /\ (\A old \in aside : Honest(old))' BY <1>6, <2>1, <2>3 DEF CalibInv, Honest
    <2>9. MoveSound' BY <1>1, <1>6, <1>12 DEF MoveSound
    <2>10. WriteSound' BY <1>12, <2>2 DEF WriteSound
    <2>11. MeasurementsSurvive' BY <1>6, <2>2 DEF CalibInv, MeasurementsSurvive
    <2>. QED BY <1>8, <2>6, <2>7, <2>8, <2>9, <2>10, <2>11 DEF CalibInv
<1>. QED BY <1>9, <1>11, <1>12

\* Estimates are of the settings that the runs still have.
LEMMA RunChangesSound == ASSUME CalibInv, RunChanges PROVE CalibInv'
<1>1. CalibTypeOK BY DEF CalibInv
<1>2. PICK r \in Runs, n \in Formulas : formula' = [formula EXCEPT ![r] = n] BY DEF RunChanges
<1>3. formula' \in [Runs -> Int] BY <1>1, <1>2, CalibAssumption DEF CalibTypeOK
<1>4. DOMAIN vramPoll' = {} BY NoRowsEmpty DEF RunChanges
<1>5. CalibTypeOK' BY <1>1, <1>3, <1>4 DEF CalibTypeOK, AreOffsets, RunChanges
<1>6. (Honest(cache) /\ Honest(rows) /\ \A old \in aside : Honest(old))' BY DEF CalibInv, Honest, RunChanges
<1>7. MoveSound' /\ WriteSound' /\ MeasurementsSurvive'
    BY DEF CalibInv, MoveSound, WriteSound, MeasurementsSurvive, RunChanges
<1>8. PollSound' BY <1>4 DEF PollSound
<1>. QED BY <1>5, <1>6, <1>7, <1>8 DEF CalibInv

LEMMA CalibRestartsSound == ASSUME CalibInv, CalibRestarts PROVE CalibInv'
<1>1. CalibTypeOK BY DEF CalibInv
<1>2. DOMAIN vramPoll' = {} /\ DOMAIN cache' = {} BY NoRowsEmpty DEF CalibRestarts
<1>3. ensuring' \in [at : {"idle", "create", "rename", "recreate", "fold", "write"}, for : Vendors \union {NoVendor}]
    BY DEF CalibRestarts
<1>4. CalibTypeOK' BY <1>1, <1>2, <1>3 DEF CalibTypeOK, AreOffsets, CalibRestarts
<1>5. (Honest(cache) /\ Honest(rows) /\ \A old \in aside : Honest(old))' BY <1>2 DEF CalibInv, Honest, CalibRestarts
<1>6. MoveSound' /\ WriteSound' /\ MeasurementsSurvive'
    BY DEF CalibInv, MoveSound, WriteSound, MeasurementsSurvive, CalibRestarts
<1>7. PollSound' BY <1>2 DEF PollSound
<1>. QED BY <1>4, <1>5, <1>6, <1>7 DEF CalibInv

-----------------------------------------------------------------------------
(* Every step, and the theorems *)

LEMMA CalibInitSound == CalibInit => CalibInv
<1>. SUFFICES ASSUME CalibInit PROVE CalibInv OBVIOUS
<1>1. DOMAIN cache = {} /\ DOMAIN vramPoll = {} BY NoRowsEmpty DEF CalibInit
<1>2. AreOffsets(rows) /\ (\A v \in DOMAIN rows : rows[v] = Excess[v])
    <2>1. OldVendor \in Vendors /\ Excess[OldVendor] \in Int BY CalibAssumption
    <2>2. CASE schema = "old"
        <3>1. rows = Entered(NoRows, OldVendor, Excess[OldVendor]) BY <2>2 DEF CalibInit
        <3>. QED BY <2>1, <3>1, NoRowsEmpty DEF Entered, AreOffsets
    <2>3. CASE schema # "old" BY <2>3, NoRowsEmpty DEF CalibInit, AreOffsets
    <2>. QED BY <2>2, <2>3
<1>3. formula \in [Runs -> Int] BY CalibAssumption DEF CalibInit
<1>4. ensuring \in [at : {"idle", "create", "rename", "recreate", "fold", "write"}, for : Vendors \union {NoVendor}]
    BY DEF CalibInit
<1>5. ever \subseteq Vendors BY <1>2 DEF CalibInit, AreOffsets
<1>6. CalibTypeOK BY <1>1, <1>2, <1>3, <1>4, <1>5 DEF CalibInit, CalibTypeOK, AreOffsets, NoTable
<1>7. Honest(cache) /\ Honest(rows) /\ \A old \in aside : Honest(old) BY <1>1, <1>2 DEF CalibInit, Honest
<1>8. MoveSound /\ WriteSound /\ MeasurementsSurvive BY DEF CalibInit, MoveSound, WriteSound, MeasurementsSurvive
<1>9. PollSound BY <1>1 DEF PollSound
<1>. QED BY <1>6, <1>7, <1>8, <1>9 DEF CalibInv

LEMMA CalibStep == CalibInv /\ [CalibNext]_calibVars => CalibInv'
<1>. SUFFICES ASSUME CalibInv, [CalibNext]_calibVars PROVE CalibInv' OBVIOUS
<1>1. CASE EnsureCreates BY <1>1, EnsureCreatesSound
<1>2. CASE EnsureRenames BY <1>2, EnsureRenamesSound
<1>3. CASE EnsureRecreates BY <1>3, EnsureRecreatesSound
<1>4. CASE EnsureFolds BY <1>4, EnsureFoldsSound
<1>5. CASE EnsureEnds BY <1>5, EnsureEndsSound
<1>6. CASE EnsureFails BY <1>6, EnsureFailsSound
<1>7. CASE PollReads BY <1>7, PollReadsSound
<1>8. CASE PollRecords BY <1>8, PollRecordsSound
<1>9. CASE RunChanges BY <1>9, RunChangesSound
<1>10. CASE CalibRestarts BY <1>10, CalibRestartsSound
<1>11. CASE UNCHANGED calibVars BY <1>11, CalibStutters
<1>. QED BY <1>1, <1>2, <1>3, <1>4, <1>5, <1>6, <1>7, <1>8, <1>9, <1>10, <1>11 DEF CalibNext

\* A measurement makes later estimates true, and is on disk whenever the backend
\* ends: record(), offset_mb() and the statements of ensure_table().
THEOREM MeasurementsAreKept == CalibSpec => [](CalibTypeOK /\ CorrectionsAreKept)
<1>1. CalibInv => CalibTypeOK /\ CorrectionsAreKept
    BY DEF CalibInv, Honest, MeasuredIsTrue, CorrectionsAreKept
<1>. QED BY <1>1, CalibInitSound, CalibStep, PTL DEF CalibSpec

=============================================================================
