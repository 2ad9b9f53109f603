-------------------------------- MODULE Stores --------------------------------
(***************************************************************************)
(* What the backend keeps in two forms: presets and the sections of the    *)
(* router's file, the fields of a preset and its command line.  The two    *)
(* share no state.                                                         *)
(***************************************************************************)
EXTENDS RouterTable, CommandLine, Scene

\* What is stored in two forms is one thing: presets and the router's sections,
\* fields and commands.
StoresAgree ==
    /\ scene = "presets" => PresetsAreServed
    /\ scene = "command" => RoundTrip /\ CommandIsRead

=============================================================================
