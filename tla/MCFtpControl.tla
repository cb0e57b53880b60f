--------------------------- MODULE MCFtpControl ---------------------------
(* One session with a small server, for TLC. *)
EXTENDS FtpControl
=============================================================================
