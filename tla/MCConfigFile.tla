----------------------------- MODULE MCConfigFile -----------------------------
(***************************************************************************)
(* A small vocabulary for ConfigFile: keys that only one of the tables     *)
(* knows, and one that both know; two names of servers, which are paths of *)
(* locations too and may be exchanged.                                     *)
(***************************************************************************)
EXTENDS ConfigFileInvariant

CONSTANTS a, b

Names == {a, b}
Exchange == Permutations(Names)

SomeValues ==
  [k \in {"listen", "server_name", "root", "autoindex"} |->
     CASE k = "listen" -> {"80", "0"}
       [] k = "server_name" -> Names
       [] OTHER -> {"on"}]
=============================================================================
