------------------------------ MODULE Lifecycle ------------------------------
(***************************************************************************)
(* The life of the backend: lifespan() of src/backend/lld/main.py, the     *)
(* restarts of api/system_api.py, and what they do to the router presets,  *)
(* whose processes outlive the backend.                                    *)
(*                                                                         *)
(* One preset has one port, so that there is one process at most; which of *)
(* several is adopted is in Supervisor.  A router reads its INI file once, *)
(* if it is told of one; no two presets are told of the same.              *)
(* The services that only start with the backend have modules of their own.*)
(***************************************************************************)
EXTENDS Naturals

CONSTANTS
    RouterPresets,  \* names of presets in router mode
    Seed,           \* the one of default_seeds(), whose file is the default one
    WithPath,       \* those whose models_preset_path is not empty
    MaxEdition      \* bound: how often what belongs into the INI files changes

ASSUME LifecycleAssumption ==
    Seed \in RouterPresets /\ WithPath \subseteq RouterPresets /\ MaxEdition \in Nat \ {0}

VARIABLES
    phase,     \* of lifespan()
    modelsDir, \* of every preset: the factory's, one the user chose, or no preset
    root,      \* the setting hf_models_root
    binary,    \* whether the configured llama-server exists
    edition,   \* of presets and files, as a rendering would have them now
    iniFile,   \* the edition in the INI file of each preset, if it is told of one
    llama,     \* the process of each preset
    held,      \* what its ProcessHandle is doing; crashed: it will start again
    todo,      \* presets of the loop of lifespan() that is running
    pointed,   \* history: the wizard was given a models root that is not the
               \* factory's, and nobody has gone back to the factory's since
    excused,   \* history: presets that this boot cannot, or need not, have brought up
    stale,     \* presets whose INI file is newer than what status() takes for the start
    met        \* history: presets whose INI file was written while they started

lifeVars == <<phase, modelsDir, root, binary, edition, iniFile, llama, held, todo, pointed, excused, stale, met>>

Phases == {"down", "seeded", "written", "adopting", "starting", "serving", "stopping"}

\* Edition 0 is no file.
Editions == 0..MaxEdition
NotRead == MaxEdition + 1

(* life    defunct: it ended, and nobody has waited for it
   child   the backend's own, which it is across os.execv()
   newer   the INI file was written after the process was created            *)
LlamaProcess == [life : {"none", "up", "defunct"}, child : BOOLEAN, read : Editions \union {NotRead},
                 newer : BOOLEAN]
NoLlama == [life |-> "none", child |-> FALSE, read |-> NotRead, newer |-> FALSE]

Registered == {p \in RouterPresets : modelsDir[p] # "absent"}
Up(p) == llama[p].life = "up"

\* is_running() is false.
NotRunning(p) == held[p] \in {"none", "crashed"}

\* STATE_DIR / "router-models.ini" if the preset names no file.
IniOf(p) == IF p \in WithPath THEN p ELSE Seed

LifeInit ==
    /\ phase = "down"
    /\ modelsDir = [p \in RouterPresets |-> "absent"]
    /\ root = "factory"
    /\ binary \in BOOLEAN
    /\ edition = 1
    /\ iniFile = [p \in RouterPresets |-> 0]
    /\ llama = [p \in RouterPresets |-> NoLlama]
    /\ held = [p \in RouterPresets |-> "none"]
    /\ todo = {}
    /\ pointed = FALSE /\ excused = {} /\ stale = {} /\ met = {}

-----------------------------------------------------------------------------

\* write_ini() for some presets, of the edition e.  _ini_is_newer_than_start()
\* looks at the file that the preset names, and at none if it names none.
WritesIni(presets, e) ==
    LET written == {IniOf(p) : p \in presets}
        readers == written \intersect WithPath
    IN  /\ iniFile' = [p \in RouterPresets |-> IF p \in written THEN e ELSE iniFile[p]]
        /\ llama' = [p \in RouterPresets |->
                        IF p \in readers /\ Up(p) THEN [llama[p] EXCEPT !.newer = TRUE] ELSE llama[p]]
        /\ stale' = stale \union {p \in readers : held[p] \in {"ours", "adopted"}}
        /\ met' = met \union {p \in readers : held[p] = "starting" /\ Up(p)}

-----------------------------------------------------------------------------
(* The boot *)

\* add_missing(default_seeds()): a preset that was deleted is there again.
Seeds ==
    /\ phase = "down"
    /\ phase' = "seeded"
    /\ modelsDir' = [modelsDir EXCEPT ![Seed] = IF @ = "absent" THEN root ELSE @]
    /\ excused' = {}
    /\ UNCHANGED <<root, binary, edition, iniFile, llama, held, todo, pointed, stale, met>>

\* Only for the first router of the list.
BootWritesIni ==
    /\ phase = "seeded"
    /\ phase' = "written"
    /\ \E p \in Registered : WritesIni({p}, edition)
    /\ UNCHANGED <<modelsDir, root, binary, edition, held, todo, pointed, excused>>

\* reap_orphan_children() and scan_existing(): what runs, on a preset's port.
Scans ==
    /\ phase = "written"
    /\ phase' = "adopting"
    /\ llama' = [p \in RouterPresets |-> IF llama[p].life = "defunct" THEN NoLlama ELSE llama[p]]
    /\ todo' = {p \in Registered : Up(p)}
    /\ UNCHANGED <<modelsDir, root, binary, edition, iniFile, held, pointed, excused, stale, met>>

\* Mutant: the process is taken to be as young as its handle.
AsYoungAsItsHandle(p) == FALSE

\* adopt() takes the time at which the process was created.
StaleWhenAdopted(p) == llama[p].newer

\* A process that has ended since is no llama-server any more.
AdoptsOne(p) ==
    /\ phase = "adopting" /\ p \in todo
    /\ todo' = todo \ {p}
    /\ IF Up(p) THEN /\ held' = [held EXCEPT ![p] = "adopted"]
                     /\ stale' = IF StaleWhenAdopted(p) THEN stale \union {p} ELSE stale \ {p}
                ELSE UNCHANGED <<held, stale>>
    /\ UNCHANGED <<phase, modelsDir, root, binary, edition, iniFile, llama, pointed, excused, met>>

\* Everything else is started; then it is seen which routers do not run.
FindsIdle ==
    /\ phase = "adopting" /\ todo = {}
    /\ phase' = "starting"
    /\ todo' = IF binary THEN {p \in Registered : NotRunning(p) /\ modelsDir[p] # "factory"} ELSE {}
    /\ excused' = IF binary THEN excused ELSE RouterPresets
    /\ UNCHANGED <<modelsDir, root, binary, edition, iniFile, llama, held, pointed, stale, met>>

Serves ==
    /\ phase = "starting" /\ todo = {}
    /\ phase' = "serving"
    /\ UNCHANGED <<modelsDir, root, binary, edition, iniFile, llama, held, todo, pointed, excused, stale, met>>

-----------------------------------------------------------------------------
(* start(), stop() and the processes *)

\* The boot waits for its start; users have theirs, and handles whose process
\* crashed, for which there need not be a preset any more.  A start that meets
\* another of its preset is in Supervisor.
StartsOne(p) ==
    /\ \/ phase = "starting" /\ p \in todo
       \/ phase = "serving" /\ p \in Registered
       \/ phase \in {"starting", "serving", "stopping"} /\ held[p] = "crashed"
    /\ NotRunning(p) /\ ~Up(p)
    /\ held' = [held EXCEPT ![p] = "starting"]
    /\ UNCHANGED <<phase, modelsDir, root, binary, edition, iniFile, llama, todo, pointed, excused, stale, met>>

SpawnsOne(p) ==
    /\ held[p] = "starting" /\ ~Up(p) /\ binary
    /\ llama' = [llama EXCEPT ![p] = [NoLlama EXCEPT !.life = "up", !.child = TRUE]]
    /\ UNCHANGED <<phase, modelsDir, root, binary, edition, iniFile, held, todo, pointed, excused, stale, met>>

\* The time of the start is taken when the process is there.
StartsOneEnds(p) ==
    /\ held[p] = "starting" /\ Up(p)
    /\ held' = [held EXCEPT ![p] = "ours"]
    /\ stale' = stale \ {p}
    /\ todo' = IF phase = "starting" THEN todo \ {p} ELSE todo
    /\ UNCHANGED <<phase, modelsDir, root, binary, edition, iniFile, llama, pointed, excused, met>>

\* A missing directory, an unknown device, or a process that ends at once.
StartsOneFails(p) ==
    /\ held[p] = "starting" /\ ~Up(p)
    /\ held' = [held EXCEPT ![p] = "none"]
    /\ excused' = excused \union {p}
    /\ todo' = IF phase = "starting" THEN todo \ {p} ELSE todo
    /\ UNCHANGED <<phase, modelsDir, root, binary, edition, iniFile, llama, pointed, stale, met>>

ReadsIni(p) ==
    /\ p \in WithPath /\ Up(p) /\ llama[p].read = NotRead
    /\ llama' = [llama EXCEPT ![p].read = iniFile[p]]
    /\ UNCHANGED <<phase, modelsDir, root, binary, edition, iniFile, held, todo, pointed, excused, stale, met>>

\* A child that nothing of this backend waits for is defunct.
LlamaGone(p, after) ==
    /\ Up(p)
    /\ llama' = [llama EXCEPT ![p] =
                    IF held[p] = "none" /\ llama[p].child THEN [NoLlama EXCEPT !.life = "defunct"] ELSE NoLlama]
    /\ held' = [held EXCEPT ![p] = after]
    /\ excused' = excused \union {p} /\ stale' = stale \ {p} /\ met' = met \ {p}
    /\ UNCHANGED <<phase, modelsDir, root, binary, edition, iniFile, todo, pointed>>

\* A start does not see that its process has ended; a handle does, and starts
\* again what it started itself, unless that was too often or ended in order.
LlamaEnds(p) ==
    \E after \in {"none", "starting", "crashed"} :
        /\ after = "starting" <=> held[p] = "starting"
        /\ after = "crashed" => held[p] = "ours"
        /\ LlamaGone(p, after)

\* Also what waits to start again is stopped.
UserStops(p) ==
    /\ phase = "serving"
    /\ \/ held[p] \in {"ours", "adopted"} /\ LlamaGone(p, "none")
       \/ /\ held[p] = "crashed"
          /\ held' = [held EXCEPT ![p] = "none"]
          /\ UNCHANGED <<phase, modelsDir, root, binary, edition, iniFile, llama, todo, pointed, excused, stale, met>>

-----------------------------------------------------------------------------
(* The user *)

\* The presets are saved: every router's INI file is written.
SavesPresets(dirs) ==
    /\ phase = "serving" /\ edition < MaxEdition
    /\ modelsDir' = dirs
    /\ edition' = edition + 1
    /\ WritesIni({p \in RouterPresets : dirs[p] # "absent"}, edition + 1)
    /\ UNCHANGED <<phase, root, binary, held, todo>>

SavesSibling == SavesPresets(modelsDir) /\ UNCHANGED <<pointed, excused>>

\* A new preset, or another directory for one.
PutsRouter(p) ==
    \E dir \in {"factory", "chosen"} \ {modelsDir[p]} :
        /\ SavesPresets([modelsDir EXCEPT ![p] = dir])
        /\ pointed' = (pointed /\ dir = "chosen")
        /\ excused' = excused \union {p}

\* Its process, and its handle, stay.
DeletesRouter(p) ==
    /\ p \in Registered
    /\ SavesPresets([modelsDir EXCEPT ![p] = "absent"])
    /\ excused' = excused \union {p}
    /\ UNCHANGED pointed

\* Files come into the directory, presets.json is edited by hand.
FilesChange ==
    /\ edition < MaxEdition
    /\ edition' = edition + 1
    /\ UNCHANGED <<phase, modelsDir, root, binary, iniFile, llama, held, todo, pointed, excused, stale, met>>

\* _repoint_factory_routers(); that it fails to save a preset is left out.
Repointed(new) ==
    [p \in RouterPresets |-> IF new # "factory" /\ modelsDir[p] = "factory" THEN new ELSE modelsDir[p]]

\* POST /setup/models-root
WizardSetsRoot ==
    /\ phase = "serving"
    /\ \E new \in {"factory", "chosen"} :
          /\ root' = new /\ modelsDir' = Repointed(new)
          /\ pointed' = (new # "factory")
    /\ edition' \in {e \in Editions : e \in edition..(edition + 1) /\ (e = edition => modelsDir' = modelsDir)}
    /\ excused' = excused \union {p \in RouterPresets : modelsDir'[p] # modelsDir[p]}
    /\ UNCHANGED <<phase, binary, iniFile, llama, held, todo, stale, met>>

\* PUT /settings
SettingsSetRoot ==
    /\ phase = "serving"
    /\ root' \in {"factory", "chosen"} \ {root}
    /\ pointed' = FALSE
    /\ UNCHANGED <<phase, modelsDir, binary, edition, iniFile, llama, held, todo, excused, stale, met>>

SetsBinary ==
    /\ phase = "serving" /\ ~binary
    /\ binary' = TRUE
    /\ UNCHANGED <<phase, modelsDir, root, edition, iniFile, llama, held, todo, pointed, excused, stale, met>>

-----------------------------------------------------------------------------
(* The end *)

\* The tasks are cancelled, the broker and the RPC servers stopped; restarts
\* after a crash are not among what is cancelled.
Shutdown ==
    /\ phase = "serving"
    /\ phase' = "stopping"
    /\ UNCHANGED <<modelsDir, root, binary, edition, iniFile, llama, held, todo, pointed, excused, stale, met>>

\* The end of the process, at its end or killed: its children may end with it,
\* and if they do not they are nobody's.
BackendEnds ==
    /\ phase # "down"
    /\ \E alive \in SUBSET {p \in RouterPresets : Up(p)} :
          llama' = [p \in RouterPresets |-> IF p \in alive THEN [llama[p] EXCEPT !.child = FALSE] ELSE NoLlama]
    /\ phase' = "down"
    /\ held' = [p \in RouterPresets |-> "none"] /\ todo' = {} /\ stale' = {} /\ met' = {}
    /\ UNCHANGED <<modelsDir, root, binary, edition, iniFile, pointed, excused>>

\* POST /system/restart: os.execv() leaves the children with their parent.
Execs ==
    /\ phase = "serving"
    /\ phase' = "down"
    /\ held' = [p \in RouterPresets |-> "none"] /\ stale' = {} /\ met' = {}
    /\ UNCHANGED <<modelsDir, root, binary, edition, iniFile, llama, todo, pointed, excused>>

LifeNext ==
    \/ Seeds \/ BootWritesIni \/ Scans \/ FindsIdle \/ Serves
    \/ \E p \in RouterPresets :
          \/ AdoptsOne(p) \/ StartsOne(p) \/ SpawnsOne(p) \/ StartsOneEnds(p) \/ StartsOneFails(p)
          \/ ReadsIni(p) \/ LlamaEnds(p) \/ UserStops(p) \/ PutsRouter(p) \/ DeletesRouter(p)
    \/ SavesSibling \/ FilesChange \/ WizardSetsRoot \/ SettingsSetRoot \/ SetsBinary
    \/ Shutdown \/ BackendEnds \/ Execs

LifeSpec == LifeInit /\ [][LifeNext]_lifeVars

-----------------------------------------------------------------------------
(* Properties *)

LifeTypeOK ==
    /\ phase \in Phases
    /\ modelsDir \in [RouterPresets -> {"absent", "factory", "chosen"}] /\ root \in {"factory", "chosen"}
    /\ binary \in BOOLEAN /\ pointed \in BOOLEAN
    /\ edition \in Editions /\ iniFile \in [RouterPresets -> Editions]
    /\ llama \in [RouterPresets -> LlamaProcess]
    /\ held \in [RouterPresets -> {"none", "starting", "ours", "adopted", "crashed"}]
    /\ todo \union excused \union stale \union met \subseteq RouterPresets

\* The backend that boots comes to serve with every router that was pointed
\* at a directory, and with all of them, the seeded one among them, once the
\* wizard was given one that is not the default: adopted from an earlier
\* backend or started, but for those that ended, could not start or were
\* edited since.
BootBringsRouters ==
    phase = "serving" =>
        \A p \in Registered \ excused : modelsDir[p] # "factory" \/ pointed => Up(p) /\ ~NotRunning(p)

\* A router whose INI file has changed since it read it is shown to be stale,
\* also by a backend that found it running; not so where the file was written
\* in the middle of its start.
StaleIsShown ==
    \A p \in RouterPresets \ met :
        held[p] \in {"ours", "adopted"} /\ llama[p].read \notin {NotRead, iniFile[p]} => p \in stale

\* The two together: nobody has to bring a router up, or to watch its file.
RoutersComeBack == BootBringsRouters /\ StaleIsShown

=============================================================================
