------------------------------- MODULE MCToolRun -------------------------------
(* Two requests of every kind. The tools are "exec", written in two ways,    *)
(* and "read"; the policy denies one name and allows the other, allows       *)
(* nothing but a blank name (which allows all), or has a name on both lists. *)
EXTENDS ToolRun

MCSpellings == {"", "exec", " Exec", "read"}
MCBodies == {[tool |-> " Exec", command |-> TRUE], [tool |-> "read", command |-> TRUE],
             [tool |-> "read", command |-> FALSE], Invalid, Approval}
MCNormal == [s \in MCSpellings |-> IF s = " Exec" THEN "exec" ELSE s]
MCConfigs == {[allow |-> {"exec"}, deny |-> {"read"}],
              [allow |-> {""}, deny |-> {" Exec"}],
              [allow |-> {" Exec", "read"}, deny |-> {"exec"}]}
=============================================================================
