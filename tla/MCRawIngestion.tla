--------------------------- MODULE MCRawIngestion ---------------------------
(* Instances of RawIngestion: the scheduler's job and the API endpoint run  *)
(* one collector over batches of up to three items.                         *)
EXTENDS RawIngestion

CONSTANTS x, y, z, scheduler, api
=============================================================================
