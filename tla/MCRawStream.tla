---------------------------- MODULE MCRawStream ----------------------------
(* RawStream with short words and names: a name of the allocator, a user's  *)
(* one that is shorter than the cap and one that is longer; an address and   *)
(* a size that need both bytes of a word; a buffer that, in the retained     *)
(* format, is full after one long name.                                     *)
EXTENDS RawStream

MCNames == {<<0>>, <<1>>, <<2, 2, 6, 5>>}
MCInternal == {<<0>>}
=============================================================================
