----------------------------- MODULE MCChunking -----------------------------
(* Chunking for TLC: with a limit of four tokens and an overlap of two, a  *)
(* paragraph of one token, one of three, and two of several sentences,     *)
(* the second too long for a chunk.                                        *)
EXTENDS Chunking

MCParagraphs == {<<7>>, <<15>>, <<4, 4>>, <<8, 7, 23>>}
=============================================================================
