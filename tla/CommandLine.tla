----------------------------- MODULE CommandLine -----------------------------
(***************************************************************************)
(* Presets and command lines: to_argv(), from_argv() and merge_command()   *)
(* of src/backend/lld/argv.py, with the saves of api/presets_api.py that   *)
(* keep the fields of a preset and its raw command one thing.              *)
(*                                                                         *)
(* There is one flag for every way in which flags are read and written,    *)
(* and a token is a flag or a value.                                       *)
(***************************************************************************)
EXTENDS Naturals, Sequences, SequencesExt

CONSTANTS
    LineTokens,   \* what a shell makes of the words of a line
    Typed,        \* command lines that a user may type
    Edits         \* presets that a user may fill in

VARIABLES
    typed,    \* what this user types
    preset,   \* the preset in the editor, as it was saved
    applied   \* history: what of the typed command counts: nothing, its fields, all of it

commandVars == <<typed, preset, applied>>

None == "none"

\* One flag of each kind of _FIELD_FLAGS, a device list, and a router's flag.
FieldOf ==
    [f \in {"--model", "--temp", "--model-draft", "--spec-type", "--draft-max", "-dev", "--models-dir"} |->
        CASE f = "--model"       -> "model"
          [] f = "--temp"        -> "temp"
          [] f = "--model-draft" -> "draftModel"
          [] f = "--spec-type"   -> "spec"
          [] f = "--draft-max"   -> "draftMax"
          [] f = "-dev"          -> "devices"
          [] f = "--models-dir"  -> "modelsDir"]

ValueFlags == DOMAIN FieldOf \union {"--rpc"}
Switches == {"--jinja", "--metrics", "--cont-batching", "--no-cont-batching"}
IsFlag(tok) == tok \in ValueFlags \union Switches \union {"--temperature", "--reasoning", "--verbose"}

\* _canonical()
Canonical(tok) == IF tok = "--temperature" THEN "--temp" ELSE tok

\* What the backend itself puts in a command, and reads in one.
Words ==
    ValueFlags \union Switches
    \union {"--temperature", "--reasoning", "--verbose", "auto", "on", "off", "x", "draft", "endpoint"}

\* LlamaServerConfig and its defaults.
Optional == LineTokens \union {None}
Fields ==
    [model : Optional, temp : LineTokens, reasoning : LineTokens, draftModel : Optional, spec : Optional,
     draftMax : Optional, devices : Optional, modelsDir : Optional, mode : {"single", "router"},
     contBatching : BOOLEAN, jinja : BOOLEAN, metrics : BOOLEAN,
     extra : Seq(LineTokens), override : Seq(LineTokens)]

Defaults ==
    [model |-> None, temp |-> "x", reasoning |-> "auto", draftModel |-> None, spec |-> None,
     draftMax |-> None, devices |-> None, modelsDir |-> None, mode |-> "single",
     contBatching |-> TRUE, jinja |-> FALSE, metrics |-> TRUE, extra |-> <<>>, override |-> <<>>]

\* A user who fills in the fields has switched the raw command off.
ASSUME CommandAssumption ==
    /\ None \notin LineTokens /\ Words \subseteq LineTokens
    /\ Typed \subseteq Seq(LineTokens)
    /\ \A edit \in Edits : edit \in Fields /\ edit.override = <<>>

-----------------------------------------------------------------------------
(* to_argv() *)

When(condition, tokens) == IF condition THEN tokens ELSE <<>>

Drafts(cfg) == cfg.draftModel # None \/ cfg.spec # None

SingleArgv(cfg) ==
    When(cfg.model # None, <<"--model", cfg.model>>)
    \o <<"--temp", cfg.temp>>
    \o When(cfg.reasoning # "auto", <<"--reasoning", cfg.reasoning>>)
    \o When(cfg.spec # None, <<"--spec-type", cfg.spec>>)
    \o When(cfg.draftModel # None, <<"--model-draft", cfg.draftModel>>)
    \o When(cfg.draftMax # None /\ Drafts(cfg), <<"--draft-max", cfg.draftMax>>)
    \o When(cfg.devices = "rpc0", <<"--rpc", "endpoint">>)
    \o When(cfg.devices # None, <<"-dev", cfg.devices>>)
    \o When(~cfg.contBatching, <<"--no-cont-batching">>)
    \o When(cfg.jinja, <<"--jinja">>)
    \o When(cfg.metrics, <<"--metrics">>)
    \o cfg.extra

\* _router_argv(): what single models take is in the INI file.
RouterArgv(cfg) ==
    When(cfg.modelsDir # None, <<"--models-dir", cfg.modelsDir>>)
    \o When(cfg.metrics, <<"--metrics">>)
    \o cfg.extra

ToArgv(cfg) ==
    IF cfg.override # <<>> THEN cfg.override
    ELSE IF cfg.mode = "router" THEN RouterArgv(cfg) ELSE SingleArgv(cfg)

-----------------------------------------------------------------------------
(* from_argv(): a fold; "pending" is the flag that may take the next token.  *)

\* Mutant: what a command does not say keeps its default.
BlankDefaults == Defaults

\* A flag that is written only when it is on is off when it is missing.
Blank == [Defaults EXCEPT !.jinja = FALSE, !.metrics = FALSE]

KeptVerbatim(st, tok) == [st EXCEPT !.cfg.extra = Append(@, tok), !.pending = None]

Begun(st, tok) ==
    LET flag == Canonical(tok) IN
    CASE flag \in ValueFlags \union {"--reasoning"} -> [st EXCEPT !.pending = tok]
      [] flag = "--jinja"            -> [st EXCEPT !.cfg.jinja = TRUE]
      [] flag = "--metrics"          -> [st EXCEPT !.cfg.metrics = TRUE]
      [] flag = "--cont-batching"    -> [st EXCEPT !.cfg.contBatching = TRUE]
      [] flag = "--no-cont-batching" -> [st EXCEPT !.cfg.contBatching = FALSE]
      [] OTHER                       -> [KeptVerbatim(st, tok) EXCEPT !.pending = tok]

Assigned(st, flag, tok) ==
    CASE flag = "--rpc"        -> [st EXCEPT !.pending = None]
      [] flag = "--models-dir" -> [st EXCEPT !.cfg.modelsDir = tok, !.cfg.mode = "router", !.pending = None]
      [] OTHER                 -> [st EXCEPT !.cfg[FieldOf[flag]] = tok, !.pending = None]

Taken(st, tok) ==
    LET flag == Canonical(st.pending) IN
    CASE flag = None -> Begun(st, tok)
      [] flag \in ValueFlags -> Assigned(st, flag, tok)
      [] flag = "--reasoning" /\ tok \in {"on", "off", "auto"} ->
             [st EXCEPT !.cfg.reasoning = tok, !.pending = None]
      [] flag = "--reasoning" /\ tok \notin {"on", "off", "auto"} ->
             Begun([st EXCEPT !.cfg.reasoning = "on", !.pending = None], tok)
      [] OTHER -> IF IsFlag(tok) THEN Begun([st EXCEPT !.pending = None], tok) ELSE KeptVerbatim(st, tok)

\* A flag without its value is kept as it is.
Ended(st) ==
    CASE Canonical(st.pending) \in ValueFlags -> KeptVerbatim(st, st.pending).cfg
      [] st.pending = "--reasoning" -> [st.cfg EXCEPT !.reasoning = "on"]
      [] OTHER -> st.cfg

FromArgv(argv) == Ended(FoldLeft(Taken, [cfg |-> Blank, pending |-> None], argv))

\* merge_command()
Merged(argv) ==
    LET cfg == FromArgv(argv) IN
    IF cfg.draftModel # None /\ cfg.spec = None THEN [cfg EXCEPT !.spec = "draft"] ELSE cfg

-----------------------------------------------------------------------------

CommandInit ==
    /\ typed \in Typed
    /\ preset \in Edits
    /\ applied = "nothing"

\* POST /command/parse, whose result the user saves.
CommandApplied ==
    /\ preset' = Merged(typed)
    /\ applied' = "fields" /\ UNCHANGED typed

\* PUT with a raw command: _sync_from_override() parses it over the fields.
OverrideSaved ==
    /\ typed # <<>>
    /\ preset' = [Merged(typed) EXCEPT !.override = typed]
    /\ applied' = "override" /\ UNCHANGED typed

\* The override is switched off: the box is filled with the fields.
OverrideDropped ==
    /\ preset.override # <<>>
    /\ preset' = [preset EXCEPT !.override = <<>>]
    /\ applied' = "fields" /\ UNCHANGED typed

CommandNext == CommandApplied \/ OverrideSaved \/ OverrideDropped

CommandSpec == CommandInit /\ [][CommandNext]_commandVars

-----------------------------------------------------------------------------
(* Properties.  What llama-server makes of a command line: the last          *)
(* occurrence of a flag counts, and limits of drafts only with a drafter.    *)

Named == (ValueFlags \ {"--rpc"}) \union {"--reasoning", "--verbose", "--jinja", "--metrics", "--cont-batching"}
NothingSaid == [f \in Named \union {"--rpc"} |-> IF f = "--cont-batching" THEN "on" ELSE None]

Said(st, tok) ==
    LET flag == Canonical(st.pending) IN
    CASE flag \in ValueFlags \/ (flag = "--reasoning" /\ ~IsFlag(tok)) ->
             [flags |-> [st.flags EXCEPT ![flag] = tok], pending |-> None]
      [] OTHER ->
             [flags |-> [f \in DOMAIN st.flags |->
                            CASE f = tok /\ tok \in Switches \union {"--reasoning", "--verbose"} -> "on"
                              [] <<f, tok>> = <<"--cont-batching", "--no-cont-batching">> -> "off"
                              [] OTHER -> st.flags[f]],
              pending |-> IF Canonical(tok) \in ValueFlags \union {"--reasoning"} THEN tok ELSE None]

Effect(argv) ==
    LET said == FoldLeft(Said, [flags |-> NothingSaid, pending |-> None], argv).flags IN
    IF said["--model-draft"] = None /\ said["--spec-type"] = None
    THEN [said EXCEPT !["--draft-max"] = None] ELSE said

\* A command that llama-server accepts: no value is missing, none is left over,
\* and a router is told nothing that only single models take.
Accepted(argv) ==
    /\ argv # <<>> => ~(Canonical(Last(argv)) \in ValueFlags) /\ IsFlag(Head(argv))
    /\ \A i \in 1..(Len(argv) - 1) :
          /\ Canonical(argv[i]) \in ValueFlags => ~IsFlag(argv[i + 1])
          /\ argv[i] \in Switches \union {"--verbose"} => IsFlag(argv[i + 1])
          /\ argv[i] = "--reasoning" => IsFlag(argv[i + 1]) \/ argv[i + 1] \in {"on", "off"}
          /\ ~IsFlag(argv[i]) => IsFlag(argv[i + 1])
    /\ Effect(argv)["--models-dir"] # None =>
          \A f \in Named \ {"--models-dir", "--metrics", "--verbose"} : Effect(argv)[f] = NothingSaid[f]

CommandTypeOK ==
    /\ DOMAIN preset = DOMAIN Defaults
    /\ applied \in {"nothing", "fields", "override"}

\* Flags that have a value in a preset even when its command did not name them.
Invented == {"--temp", "--spec-type"}

\* Reading a preset's own command back changes nothing that would run, but that
\* the default of the fields is spelled out.
RoundTrip ==
    LET runs == Effect(ToArgv(preset))
        again == Effect(ToArgv(Merged(ToArgv(preset))))
    IN  Accepted(ToArgv(preset)) =>
            \A f \in Named : again[f] = runs[f] \/ (f \in Invented /\ runs[f] = None)

\* The servers for layers of a preset that runs on one of them: those that are
\* set up, whatever a command said.
Endpoints(cfg) == IF cfg.mode = "single" /\ cfg.devices = "rpc0" THEN "endpoint" ELSE None

\* What a command says is what the fields say that the rest of the backend reads,
\* and what is started from them; but a command that is kept as its fields finds
\* its RPC servers in the settings and not in its own "--rpc".
CommandIsRead ==
    applied # "nothing" /\ Accepted(typed) =>
        /\ \A f \in DOMAIN FieldOf : Effect(typed)[f] # None => preset[FieldOf[f]] = Effect(typed)[f]
        /\ preset.jinja = (Effect(typed)["--jinja"] = "on")
        /\ preset.metrics = (Effect(typed)["--metrics"] = "on")
        /\ \A f \in Named :
              Effect(typed)[f] # None => Effect(ToArgv(preset))[f] = Effect(typed)[f]
        /\ Effect(ToArgv(preset))["--rpc"] =
              IF applied = "override" THEN Effect(typed)["--rpc"] ELSE Endpoints(preset)

=============================================================================
