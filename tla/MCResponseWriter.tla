--------------------------- MODULE MCResponseWriter ---------------------------
(***************************************************************************)
(* Small instances of ResponseWriter for TLC: a buffer of 3 bytes and      *)
(* responses of up to three buffers and one byte, so that they end inside  *)
(* a buffer, at its last byte, and just after it.                          *)
(***************************************************************************)
EXTENDS ResponseWriter

UpToThree == 1..(3 * Chunk + 1)

=============================================================================
