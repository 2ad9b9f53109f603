----------------------------- MODULE RouterTable -----------------------------
(***************************************************************************)
(* What a router serves: presets of one model (src/backend/lld/presets.py, *)
(* api/presets_api.py) are rendered into the INI file of the router        *)
(* (router_ini.py), which the router reads when it starts and when it is   *)
(* told to (api/router_api.py), and router_drift.py tells when it should.  *)
(*                                                                         *)
(* A setting stands for all of them; a value of Unset leaves the key out.  *)
(* Where a file lies and what lies beside it decide the id of its model,   *)
(* so that files of one directory may share one: the ids are given, and    *)
(* so is the order in which a scan meets the files.                        *)
(* A backend that ends between presets.json and the INI file writes the    *)
(* file when it boots, before anybody asks it.                             *)
(***************************************************************************)
EXTENDS Naturals, Sequences, SequencesExt, FiniteSets

CONSTANTS
    Names,        \* names of presets
    Models,       \* files under the models directory that presets name
    Loose,        \* files that may be dropped there, Models or others
    ModelId,      \* _model_id(): of a file
    Values,       \* of the setting
    Unset

\* Nothing keeps the names of presets apart from the ids of models.
ASSUME RouterAssumption == Unset \notin Values

VARIABLES
    presets,   \* presets.json: the presets in their order
    default,   \* the setting of the router's preset, which feeds [*]
    dropped,   \* files that lie in the directory without a preset
    ini,       \* the file: [*], and sections in order
    router,    \* what the running router has read, or not running
    rendered   \* history: ini is of these presets and these files

routerVars == <<presets, default, dropped, ini, router, rendered>>

Preset == [name : Names, model : Models, value : Values \union {Unset}]
SectionNames == Names \union {ModelId[f] : f \in Models \union Loose}
Section == [id : SectionNames, model : Models \union Loose, value : Values \union {Unset}]
EmptyIni == [star |-> Unset, sections |-> <<>>]
Off == [up |-> FALSE, ini |-> EmptyIni]

-----------------------------------------------------------------------------
(* render_ini() *)

Ids(sections) == {sections[i].id : i \in DOMAIN sections}

\* Mutant: the second preset of a model gets the section of the first.
ModelsOwn(sections, p) == ModelId[p.model]

\* The name of the preset is taken where the id of its model is taken.
SectionId(sections, p) == IF ModelId[p.model] \in Ids(sections) THEN p.name ELSE ModelId[p.model]

WithPreset(sections, p) == Append(sections, [id |-> SectionId(sections, p), model |-> p.model, value |-> p.value])

\* A file is passed over where the id of its model is taken, whoever took it.
WithFile(sections, f) ==
    IF ModelId[f] \in Ids(sections) THEN sections
    ELSE Append(sections, [id |-> ModelId[f], model |-> f, value |-> Unset])

Rendered(ps, star, files) ==
    [star |-> star,
     sections |-> FoldLeft(WithFile, FoldLeft(WithPreset, <<>>, ps), SetToSeq(files))]

-----------------------------------------------------------------------------
(* What the router makes of the file: sections of one name are one, the last *)
(* value of a key counts, and [*] is for keys that a section has not.        *)

Key(sections, id, field) ==
    LET at == {i \in DOMAIN sections : sections[i].id = id /\ sections[i][field] # Unset} IN
    IF at = {} THEN Unset ELSE sections[CHOOSE i \in at : \A j \in at : j <= i][field]

Own(file, id) == Key(file.sections, id, "value")
Served(file, id) ==
    [model |-> Key(file.sections, id, "model"),
     value |-> IF Own(file, id) # Unset THEN Own(file, id) ELSE file.star]

Differs(file, live, id) ==
    \/ Served(file, id).model # Served(live, id).model
    \/ Served(file, id).value # Unset /\ Served(file, id).value # Served(live, id).value

\* Mutant: settings that a model inherits are not compared.
DriftedOwn(file, live, listed, told) ==
    {id \in Ids(file.sections) :
        listed # {} /\ (id \notin listed \/ (id \in told /\ Own(file, id) # Unset /\ Differs(file, live, id)))}

\* ini_drift(): sections and keys of the file that the router has not so, as far
\* as it answered: the models it listed, and those it told the arguments of.
Drifted(file, live, listed, told) ==
    {id \in Ids(file.sections) :
        listed # {} /\ (id \notin listed \/ (id \in told /\ Differs(file, live, id)))}

-----------------------------------------------------------------------------

RouterInit ==
    /\ presets = <<>> /\ default \in Values \union {Unset}
    /\ dropped = {}
    /\ ini = Rendered(<<>>, default, {})
    /\ router = Off
    /\ rendered = TRUE

\* The file is written after the presets are.  A failure to write it is logged
\* and leaves the file old, as a dropped file does; it is left out because no
\* state in which the file was written since is reached by it alone.
Saved(ps, star) ==
    /\ presets' = ps /\ default' = star
    /\ ini' = Rendered(ps, star, dropped) /\ rendered' = TRUE
    /\ UNCHANGED <<dropped, router>>

\* PUT /presets/{name}: upsert() keeps the place of the preset.
PutPreset ==
    \E p \in Preset :
        LET at == {i \in DOMAIN presets : presets[i].name = p.name} IN
        Saved(IF at = {} THEN Append(presets, p) ELSE [i \in DOMAIN presets |-> IF i \in at THEN p ELSE presets[i]],
              default)

DeletePreset ==
    \E i \in DOMAIN presets : Saved(RemoveAt(presets, i), default)

PutRouter ==
    \E star \in Values \union {Unset} : star # default /\ Saved(presets, star)

\* A download, or a file that is copied there.
FileDropped ==
    /\ \E f \in Loose \ dropped : dropped' = dropped \union {f}
    /\ rendered' = FALSE
    /\ UNCHANGED <<presets, default, ini, router>>

\* POST /router/ini/write, and the backend that boots.
IniWritten ==
    /\ ini' = Rendered(presets, default, dropped) /\ rendered' = TRUE
    /\ UNCHANGED <<presets, default, dropped, router>>

\* The router starts, or POST /router/reload; it stops.
RouterReads ==
    /\ router' = [up |-> TRUE, ini |-> ini]
    /\ UNCHANGED <<presets, default, dropped, ini, rendered>>

RouterStops ==
    /\ router.up /\ router' = Off
    /\ UNCHANGED <<presets, default, dropped, ini, rendered>>

RouterNext ==
    \/ PutPreset \/ DeletePreset \/ PutRouter \/ FileDropped
    \/ IniWritten \/ RouterReads \/ RouterStops

RouterSpec == RouterInit /\ [][RouterNext]_routerVars

-----------------------------------------------------------------------------
(* Properties *)

RouterTypeOK ==
    /\ \A i \in DOMAIN presets : presets[i] \in Preset
    /\ default \in Values \union {Unset} /\ dropped \subseteq Loose
    /\ ini.star \in Values \union {Unset} /\ router.ini.star \in Values \union {Unset}
    /\ \A s \in Range(ini.sections) \union Range(router.ini.sections) : s \in Section
    /\ router.up \in BOOLEAN /\ rendered \in BOOLEAN

\* No preset is named like the model of one before it: the second section of
\* that name would be one with the first.
NamesApart == \A i, j \in DOMAIN presets : j < i => presets[i].name # ModelId[presets[j].model]

Mine(i) == IF presets[i].value # Unset THEN presets[i].value ELSE default

\* Every preset that was saved can be asked for under a name of its own, and
\* gets its file and its settings, or the router's where it has none, unless
\* somebody has named a preset like the model of one before it.  The running
\* router has what it listed and told the arguments of, if it shows no drift,
\* but for keys that were taken out of the file since it read it.
PresetsAreNamed ==
    NamesApart =>
        \E id \in [DOMAIN presets -> Ids(ini.sections)] :
            /\ IsInjective(id)
            /\ \A i \in DOMAIN presets :
                  /\ Served(ini, id[i]) = [model |-> presets[i].model, value |-> Mine(i)]
                  /\ router.up /\ Ids(router.ini.sections) # {} =>
                        \A told \in SUBSET Ids(router.ini.sections) :
                            Drifted(ini, router.ini, Ids(router.ini.sections), told) = {} =>
                                /\ id[i] \in Ids(router.ini.sections)
                                /\ id[i] \in told /\ Mine(i) # Unset
                                   => Served(router.ini, id[i]) = Served(ini, id[i])

\* A file without a preset is served too, or one that the scan cannot tell from
\* it, whose model has the same id; unless somebody has named a preset so.
FilesAreFound ==
    \A f \in dropped :
        /\ ModelId[f] \in Ids(ini.sections)
        /\ \/ \E g \in dropped \union {presets[i].model : i \in DOMAIN presets} :
                 ModelId[g] = ModelId[f] /\ Served(ini, ModelId[f]).model = g
           \/ \E i \in DOMAIN presets : presets[i].name = ModelId[f]

PresetsAreServed == rendered => PresetsAreNamed /\ FilesAreFound

=============================================================================
