----------------------- MODULE MCSharedMemoryConnector -----------------------
(* Servers and a client of one connection id as model values for TLC.      *)
EXTENDS SharedMemoryConnector

CONSTANTS s1, s2, s3, c1
=============================================================================
