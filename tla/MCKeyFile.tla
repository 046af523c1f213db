----------------------------- MODULE MCKeyFile -----------------------------
(* Bounds for checking KeyFile: keys of up to 34 octets (a 16-octet key and *)
(* a 33-octet one among them), malformed texts of up to 47 characters (one *)
(* more than the buffer) and up to two whitespace bytes after the text (a  *)
(* CRLF, a doubled newline).                                               *)
EXTENDS KeyFile

MCMaxKeyBytes == 34
MCMaxTextLen == 47
MCMaxTail == 2

=============================================================================
