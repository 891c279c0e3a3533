------------------------------ MODULE MCRelay ------------------------------
(* Instances of Relay for TLC. *)
EXTENDS Relay

CONSTANT Instance  \* which destinations there are

MCKind == [s \in Streams |-> IF s = "sh" THEN "shell" ELSE "forward"]

MCDest == [s \in Streams |->
             CASE Instance = "mixed" -> IF s = "sh" THEN "reader" ELSE "echo"
               [] Instance = "echo" -> "echo"
               [] Instance = "deaf" -> IF s = "sh" THEN "deaf" ELSE "reader"]
=============================================================================
