---------------------------- MODULE MCPemIntake ----------------------------
(* Small instances of PemIntake: one label of each kind that the page or   *)
(* the server tells apart.                                                 *)
EXTENDS PemIntake

MCLabels == {"CERTIFICATE REQUEST", "CERTIFICATE", "PRIVATE KEY", "OPENSSH PRIVATE KEY",
             "PUBLIC KEY", "certificate request"}

MCOddLabels == {"certificate request"}

=============================================================================
