------------------------ MODULE MCDiscoveryStateMachine ------------------------
(***************************************************************************)
(* An instance of DiscoveryStateMachine for TLC: an S3 bucket scanned in   *)
(* both branches or in one, some of its tables by name, and its catalog as *)
(* a Glue data source.                                                     *)
(***************************************************************************)
EXTENDS DiscoveryStateMachine

CONSTANT e1

Scan(type, structured, unstructured, tables) ==
    [type |-> type, structured |-> structured, unstructured |-> unstructured,
     tables |-> tables]

SomeInputs == {Scan("s3", TRUE, TRUE, {}), Scan("s3", FALSE, TRUE, {}),
               Scan("s3", TRUE, FALSE, {1, 4}), Scan("glue", TRUE, FALSE, {})}

\* No table, and more than there are jobs; table 4 is named and in no catalog.
SomeCatalogs == {{}, {1, 2, 3}}
=============================================================================
