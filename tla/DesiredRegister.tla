--------------------------- MODULE DesiredRegister ---------------------------
(***************************************************************************)
(* What the backend promises of the desired state: it changes one accepted *)
(* command at a time, and every change takes the next version.  Readers    *)
(* never see it go back, skip a version or take another content under a    *)
(* version already used, whatever becomes of the server process.           *)
(***************************************************************************)
EXTENDS Naturals

CONSTANTS Mode, Manual,   \* HomeMode, and its default
          MaxVersion      \* the greatest version the database can hold

VARIABLE value

DesiredStates == [mode : Mode, manual_light_on : BOOLEAN,
                  config_version : 1..MaxVersion]

Default == [mode |-> Manual, manual_light_on |-> FALSE, config_version |-> 1]

\* e differs from d by one accepted command: a change of mode, or of the
\* light, which only manual mode accepts.
Evolves(d, e) ==
  /\ e.config_version = d.config_version + 1
  /\ \/ e.mode # d.mode /\ e.manual_light_on = d.manual_light_on
     \/ d.mode = Manual /\ e.mode = d.mode /\ e.manual_light_on # d.manual_light_on

Init == value = Default

Next == value' \in {e \in DesiredStates : Evolves(value, e)}

Spec == Init /\ [][Next]_value
=============================================================================
