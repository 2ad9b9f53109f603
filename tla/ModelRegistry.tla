---------------------------- MODULE ModelRegistry ----------------------------
(***************************************************************************)
(* The table of models of src/backend/lld/models.py: rescans that walk the *)
(* roots in a thread and then write the table, beside each other, beside   *)
(* servers that mark a model as used, and on a disk that changes.          *)
(***************************************************************************)
EXTENDS Naturals, FiniteSets

CONSTANTS
    Files,       \* paths of files that may be models
    Projectors,  \* names of projectors that may lie beside one
    NoProjector,
    Rescans,     \* calls of full_rescan()
    DiskChanges  \* bound: how often the disk changes

ASSUME RegistryAssumption == DiskChanges \in Nat /\ NoProjector \notin Projectors

VARIABLES
    disk,     \* by file: absent, or what is there
    mounted,  \* whether the root is there
    table,    \* by file: no row, or one
    rescan,   \* by call: what it has walked so far
    changes,
    current,  \* history: the last rescan saw the disk as it still is
    marked    \* history: files there all along since they were marked

registryVars == <<disk, mounted, table, rescan, changes, current, marked>>

\* A version stands for size and time.
Entry == [version : {0, 1}, projector : Projectors \union {NoProjector}]
Absent == [version |-> 2, projector |-> NoProjector]
Row == [version : {0, 1}, has : BOOLEAN, projector : Projectors \union {NoProjector}, used : BOOLEAN]
NoRow == [version |-> 2, has |-> FALSE, projector |-> NoProjector, used |-> FALSE]

Walk == [at : {"idle", "walk"}, left : SUBSET Files, seen : [Files -> Entry \union {Absent}], fresh : BOOLEAN]
IdleRescan == [at |-> "idle", left |-> {}, seen |-> [f \in Files |-> Absent], fresh |-> FALSE]

RegistryInit ==
    /\ disk \in [Files -> {Absent, [version |-> 0, projector |-> NoProjector]}]
    /\ mounted = TRUE
    /\ table = [f \in Files |-> NoRow]
    /\ rescan = [s \in Rescans |-> IdleRescan]
    /\ changes = 0 /\ current = FALSE /\ marked = {}

\* What a walk finds of a file.
There(f) == IF mounted THEN disk[f] ELSE Absent

Outdated(rescans) == [s \in Rescans |-> [rescans[s] EXCEPT !.fresh = FALSE]]

DiskChanged ==
    /\ changes < DiskChanges /\ changes' = changes + 1
    /\ rescan' = Outdated(rescan) /\ current' = FALSE
    /\ UNCHANGED table

\* A download, another quant, a projector beside it, or the file is deleted.
FileChanges ==
    \E f \in Files, to \in Entry \union {Absent} :
        /\ mounted /\ to # disk[f]
        /\ disk' = [disk EXCEPT ![f] = to]
        /\ marked' = IF to = Absent THEN marked \ {f} ELSE marked
        /\ DiskChanged /\ UNCHANGED mounted

\* An external disk comes and goes.
RootChanges ==
    /\ mounted' = ~mounted
    /\ marked' = {}
    /\ DiskChanged /\ UNCHANGED disk

-----------------------------------------------------------------------------
(* full_rescan() *)

\* A root that is missing is a warning.
RescanBegins ==
    \E s \in Rescans :
        /\ rescan[s].at = "idle"
        /\ rescan' = [rescan EXCEPT ![s] = [at |-> "walk", left |-> IF mounted THEN Files ELSE {},
                                            seen |-> IdleRescan.seen, fresh |-> TRUE]]
        /\ UNCHANGED <<disk, mounted, table, changes, current, marked>>

RescanSees ==
    \E s \in Rescans : \E f \in rescan[s].left :
        /\ rescan' = [rescan EXCEPT ![s].left = @ \ {f},
                                    ![s].seen[f] = There(f)]
        /\ UNCHANGED <<disk, mounted, table, changes, current, marked>>

Inserted(entry) ==
    [version |-> entry.version, has |-> entry.projector # NoProjector,
     projector |-> entry.projector, used |-> FALSE]

\* Mutant: a file that changed is inserted again.
Replaced(row, entry) ==
    IF row.version # entry.version \/ row.has # (entry.projector # NoProjector)
    THEN Inserted(entry) ELSE row

\* Only what the comparison looks at makes a row be written.
Updated(row, entry) ==
    IF row.version # entry.version \/ row.has # (entry.projector # NoProjector)
    THEN [Inserted(entry) EXCEPT !.used = row.used] ELSE row

\* persist(): one transaction.
Persisted(seen) ==
    [f \in Files |-> CASE seen[f] = Absent -> NoRow
                       [] seen[f] # Absent /\ table[f] = NoRow -> Inserted(seen[f])
                       [] OTHER -> Updated(table[f], seen[f])]

RescanPersists ==
    \E s \in Rescans :
        /\ rescan[s].at = "walk" /\ rescan[s].left = {}
        /\ table' = Persisted(rescan[s].seen)
        /\ current' = rescan[s].fresh
        /\ marked' = IF rescan[s].fresh THEN marked ELSE {f \in marked : rescan[s].seen[f] # Absent}
        /\ rescan' = [Outdated(rescan) EXCEPT ![s] = IdleRescan]
        /\ UNCHANGED <<disk, mounted, changes>>

\* mark_used(): nothing happens to a file that has no row.
MarkUsed ==
    \E f \in Files :
        /\ mounted /\ disk[f] # Absent
        /\ table[f] # NoRow
        /\ table' = [table EXCEPT ![f].used = TRUE]
        /\ marked' = marked \union {f}
        /\ UNCHANGED <<disk, mounted, rescan, changes, current>>

RegistryNext ==
    \/ FileChanges \/ RootChanges
    \/ RescanBegins \/ RescanSees \/ RescanPersists \/ MarkUsed

RegistrySpec == RegistryInit /\ [][RegistryNext]_registryVars

-----------------------------------------------------------------------------
(* Properties *)

RegistryTypeOK ==
    /\ disk \in [Files -> Entry \union {Absent}] /\ mounted \in BOOLEAN
    /\ table \in [Files -> Row \union {NoRow}]
    /\ rescan \in [Rescans -> Walk]
    /\ changes \in 0..DiskChanges /\ current \in BOOLEAN /\ marked \subseteq Files

\* After a rescan that neither the disk nor another rescan overtook, the table
\* has the files that are there, as they are; but for the name of a projector
\* that was replaced by another one, which persist() does not compare.
RegistryIsTrue ==
    current => \A f \in Files :
        /\ table[f] = NoRow <=> There(f) = Absent
        /\ There(f) # Absent =>
              /\ table[f].version = There(f).version
              /\ table[f].has <=> There(f).projector # NoProjector
              /\ table[f].projector = NoProjector <=> There(f).projector = NoProjector

\* When a model was last used is not forgotten while its file stays, however
\* often it changes or is scanned; a root that goes away takes it along, and so
\* may a rescan that is late.
UseIsRemembered == \A f \in marked : table[f].used

\* The table of models is what the disk and the servers said last.
RegistryIsKept == RegistryIsTrue /\ UseIsRemembered

=============================================================================
