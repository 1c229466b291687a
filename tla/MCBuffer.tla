------------------------------ MODULE MCBuffer ------------------------------
(* A Buffer scaled down for TLC: kCheapPrepend 2, initial size 2 and a   *)
(* 2-byte extrabuf, with up to 8 bytes entering in chunks of up to 3.    *)
(* A 3-byte append to the fresh buffer must grow it; after a retrieve    *)
(* the same append fits by compaction; a 3-byte read overflows the tail  *)
(* into extrabuf; retrieving everything resets the indices.              *)
EXTENDS Buffer

MCPrepend == 2
MCInitial == 2
MCExtra == 2
MCMaxBytes == 8
MCMaxChunk == 3
=============================================================================
