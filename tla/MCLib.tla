------------------------------- MODULE MCLib -------------------------------
(* The calls of MCFormat; and string functions on memories of six bytes with *)
(* strings of every length up to four, bytes above 127 and words of two, for *)
(* every pair of pointers and every count.                                   *)
EXTENDS Lib, MCFormat

MCMemories == {<<1, 1, 0, 1, 0, 0>>, <<1, 200, 1, 1, 0, 1>>,
               <<0, 200, 0, 1, 200, 0>>, <<200, 1, 200, 0, 0, 1>>}
=============================================================================
