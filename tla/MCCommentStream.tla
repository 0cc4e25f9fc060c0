-------------------------- MODULE MCCommentStream ---------------------------
(* Small instances of CommentStream for TLC.                               *)
EXTENDS CommentStream
=============================================================================
