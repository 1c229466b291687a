--------------------------- MODULE MCAsyncLogging ---------------------------
(* Buffers with room for two lines (avail() > len leaves the last unit     *)
(* unused), and six lines: enough for a front end to fill current and      *)
(* next buffers before the back end swaps, so that buffersToWrite holds    *)
(* three buffers and resize(2) cuts one.  A file rolls past two lines,     *)
(* and LogFile checks the time every second append.                       *)
EXTENDS AsyncLogging
=============================================================================
