---------------------------- MODULE MCOtaUpdate ----------------------------
(* Instances of OtaUpdate: partitions of two sectors, image 1 one sector   *)
(* long, image 2 two, image 1 flashed at the factory.                      *)
EXTENDS OtaUpdate

MCImageSectors == <<1, 2>>
\* Image 1 in the factory partition, and in the test partition with it; in ota_0
\* when there is no factory partition, and a test partition is then not flashed.
MCInitialParts ==
    [p \in Parts |-> IF \/ p = find_default_boot_partition
                        \/ p = TEST_APP_INDEX /\ HasFactory THEN 1 ELSE 0]
=============================================================================
