-------------------------- MODULE MCPluginManager --------------------------
(***************************************************************************)
(* An instance of PluginManager for TLC.  "base" registers components in   *)
(* the middle of its Initialize, and "left" and "right" become ready       *)
(* together inside it.  "top" needs two plugins and a component, the two   *)
(* rings wait for each other, and "orphan" waits for a plugin that is not  *)
(* in the directory.                                                       *)
(***************************************************************************)
EXTENDS PluginManager

MCPlugin == {"base", "left", "right", "top", "ringA", "ringB", "orphan", "absent"}
MCFiles == MCPlugin \ {"absent"}

MCPluginDependencies ==
    [p \in MCPlugin |->
        CASE p = "top" -> {"left", "base"}
          [] p = "ringA" -> {"ringB"}
          [] p = "ringB" -> {"ringA"}
          [] p = "orphan" -> {"absent"}
          [] OTHER -> {}]

MCComponentDependencies ==
    [p \in MCPlugin |->
        CASE p \in {"left", "right"} -> {"location"}
          [] p = "top" -> {"motion"}
          [] OTHER -> {}]

MCRegisters ==
    [p \in MCPlugin |->
        CASE p = "base" -> {"location", "mesh"}
          [] p = "right" -> {"motion"}
          [] OTHER -> {}]

\* As above, and "right" registers a component that "base" has too.
MCRegistersTwice == [MCRegisters EXCEPT !["right"] = {"motion", "mesh"}]

MCAwaits ==
    [p \in MCPlugin |->
        CASE p = "base" -> {"top", "absent"}
          [] p = "left" -> {"base", "right"}
          [] p = "top" -> {"base"}
          [] OTHER -> {}]

=============================================================================
