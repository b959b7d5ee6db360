---------------------- MODULE MCHFSZlibReaderFaults ----------------------
(* HFSZlibReader as a CachedReader uses it, when reads of the compressed     *)
(* data fail.                                                                *)
EXTENDS MCHFSZlibReader
=============================================================================
