------------------------ MODULE MCExporterRegister ------------------------
(***************************************************************************)
(* Delays of three bits and a counter of two: configured values beyond     *)
(* the width, an unlimited number of attempts, a base above the maximum.   *)
(***************************************************************************)
EXTENDS ExporterRegister

MCConfigs ==
    [enable : BOOLEAN, complete : BOOLEAN,
     base : {0, 1, 3, 7}, max : {0, 1, 4, 6, 7, 9}, attempts : {-1, 0, 1, 2}]

=============================================================================
