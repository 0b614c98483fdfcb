------------------------------ MODULE Configs -------------------------------
(***************************************************************************)
(* The programs that read configuration files, composed with the parser:   *)
(* the daemon pingd, the library, and an application with options of every *)
(* type whose callbacks are the parser's own.                              *)
(***************************************************************************)
EXTENDS PingdConfig, NodeupdownConfig

vars == <<cvars, pvars, nvars>>

Init ==
  /\ caller \in DOMAIN Tables
  /\ pc = IF IsPingd THEN "cmdline" ELSE "load"
  /\ ParseInit /\ PingdInit /\ LoadInit

(* conffile_bool, _int, _double, _string: the variable takes the value; an *)
(* option without one is the callback's error. *)
Application ==
  /\ ~IsPingd /\ ~IsLibrary
  /\ \/ pc = "load" /\ \E found \in Files[caller] : Setup(found)
     \/ /\ pc = "callback"
        /\ IF CallbackFails(options[data.option]) THEN ReturnError("parameters")
           ELSE Return
  /\ UNCHANGED <<pvars, nvars>>

Ended ==
  /\ \/ pc \in {"running", "exit", "connect", "unloaded"}
     \/ ~IsPingd /\ ~IsLibrary /\ pc \in {"parsed", "failed"}
  /\ UNCHANGED vars

Next ==
  \/ ParseStep /\ UNCHANGED <<pvars, nvars>>
  \/ PingdStep /\ UNCHANGED nvars
  \/ LibraryStep /\ UNCHANGED pvars
  \/ Application
  \/ Ended

Spec == Init /\ [][Next]_vars

(* What the programs go on with is what they were configured with. *)
Configured == PingdConfigured /\ LoadConfigured
=============================================================================
